---- MODULE Spec2Model ----
(***************************************************************************)
(* A model of the py_analyzer scripts: the console.log remover             *)
(* (remove_console_logs.py), the JSDoc, method-length and file-length      *)
(* analyzers, and the menu controller (main_analyzer.py).                  *)
(*                                                                         *)
(* Text.  A Python str is modelled as a sequence of tokens.  A token is    *)
(* either one punctuation or whitespace character ("(", ";", " ", "\n",    *)
(* ...) or a word of letters ("console", "log", "function", "foo", ...).   *)
(* The string a sequence stands for is the concatenation of its tokens.    *)
(* Every literal and regular expression of the source is matched token by  *)
(* token; the words used below are chosen so that no literal of the source *)
(* can match across or inside a word, which makes the token-level match    *)
(* equal to the character-level match of the source.                       *)
(***************************************************************************)
EXTENDS Integers, Sequences, FiniteSets, TLC

VARIABLES
    fileContent,   \* remover: the content of the file on disk
    backup_dir,    \* remover: TRUE when a backup directory was passed
    backups,       \* remover: contents copied to the backup directory, in order
    writes,        \* remover: number of times the file was opened for writing
    results,       \* remover: one record per call of remove_console_logs_from_file
    tool,          \* analyzers: the scan run, "jsdoc", "method", "length" or "multiline"
    src,           \* analyzers: the content of the file analysed
    pc,            \* analyzers: "scan" inside the while loop, "done" after the return
    line_i,        \* analyzers: i, the line index of the while loop, from 0
    found,         \* analyzers: missing_jsdoc / long_methods
    examined,      \* analyzers: every construct the loop has looked at, in order
    lengths,       \* analyzers: the value of analyze_file_length, once returned
    files,         \* suite: the files under the script directory, path -> content
    ctl,           \* suite: where main() of the controller is, "off" without it
    choice,        \* suite: the value get_user_choice returned
    confirmed,     \* suite: confirm_action returned True for the choice
    selection,     \* suite: the analyzers of the choice still to be run
    outcomes,      \* suite: what run_analyzer returned for the analyzers run
    rounds,        \* suite: the menu rounds finished
    raised,        \* suite: the exception that ended main(), "None" without one
    script,        \* suite: the script that is running, "none" between scripts
    spc,           \* suite: where the running script is
    proceed,       \* suite: the answer at the proceed prompt of the remover
    answer,        \* suite: the answer at the backup prompt of the remover
    todo,          \* suite: the files the loop of the script has still to take
    analysed,      \* suite: the files the running script has passed to its analysis
    faulted,       \* suite: the files whose processing raised an exception
    report         \* suite: what the running script has collected for its report

rmVars == <<fileContent, backup_dir, backups, writes, results>>
anVars == <<tool, src, pc, line_i, found, examined, lengths>>
ctlVars == <<ctl, choice, confirmed, selection, outcomes, rounds, raised>>
runVars == <<script, spc, proceed, answer, todo, analysed, faulted, report>>

vars == <<rmVars, anVars, files, ctlVars, runVars>>

-----------------------------------------------------------------------------
(* Bounds of the model *)

\* Largest number of template lines a generated remover input holds.
MaxLines == 3
\* Number of times the remover is applied to the same file in one behaviour.
MaxRuns == 2
\* Largest number of lines above the construct in a generated analyzer input.
MaxDocLines == 3
\* Largest number of lines below the declaration in a generated analyzer input.
MaxBodyLines == 3
\* Number of menu rounds of the controller in one behaviour.
MaxRounds == 1
\* Largest number of tokens a write that was cut short has put in the file.
MaxCut == 0

-----------------------------------------------------------------------------
(* String primitives *)

NL == "\n"

\* \s of the re module, str.strip(): the whitespace of the alphabet.
IsSpace(t) == t \in {" ", "\n"}

\* s[p] = lit[1], s[p+1] = lit[2], ...: the literal lit occurs in s at p.
MatchLit(s, p, lit) ==
    /\ p >= 1
    /\ p + Len(lit) - 1 <= Len(s)
    /\ \A k \in 1..Len(lit) : s[p + k - 1] = lit[k]

\* str.startswith
StartsWith(s, lit) == MatchLit(s, 1, lit)

\* str.endswith
EndsWith(s, lit) == MatchLit(s, Len(s) - Len(lit) + 1, lit)

\* lit in s
Contains(s, lit) == \E p \in 1..Len(s) : MatchLit(s, p, lit)

\* str.count of a one-character string
RECURSIVE CountFrom(_, _, _)
CountFrom(s, p, t) ==
    IF p > Len(s) THEN 0
    ELSE (IF s[p] = t THEN 1 ELSE 0) + CountFrom(s, p + 1, t)

Count(s, t) == CountFrom(s, 1, t)

\* The first position >= p of s that holds no whitespace (Len(s)+1 if none):
\* where a greedy \s* started at p stops.
RECURSIVE SkipSpace(_, _)
SkipSpace(s, p) ==
    IF p <= Len(s) /\ IsSpace(s[p]) THEN SkipSpace(s, p + 1) ELSE p

\* The last position of s before q that holds no whitespace (0 if none).
RECURSIVE SkipSpaceBack(_, _)
SkipSpaceBack(s, q) ==
    IF q >= 1 /\ IsSpace(s[q]) THEN SkipSpaceBack(s, q - 1) ELSE q

\* str.strip()
Strip(s) ==
    LET a == SkipSpace(s, 1)
        b == SkipSpaceBack(s, Len(s))
    IN  IF a > b THEN <<>> ELSE SubSeq(s, a, b)

\* str.lower() of one token: the tokens of the inputs that hold capitals.
LowerToken(t) ==
    CASE t = "JS" -> "js" [] t = "TS" -> "ts" [] t = "HTML" -> "html"
      [] t = "CSS" -> "css" [] t = "Y" -> "y" [] t = "YES" -> "yes"
      [] t = "Yes" -> "yes" [] t = "J" -> "j" [] t = "N" -> "n"
      [] OTHER -> t

\* str.lower()
Lower(s) == [k \in 1..Len(s) |-> LowerToken(s[k])]

\* The first position >= p of s holding token t, 0 if there is none.
RECURSIVE FirstAt(_, _, _)
FirstAt(s, p, t) ==
    IF p > Len(s) THEN 0
    ELSE IF s[p] = t THEN p
    ELSE FirstAt(s, p + 1, t)

\* str.split('\n'): the pieces between newlines; always at least one piece.
RECURSIVE SplitFrom(_, _)
SplitFrom(s, p) ==
    LET n == FirstAt(s, p, NL)
    IN  IF n = 0 THEN << SubSeq(s, p, Len(s)) >>
        ELSE << SubSeq(s, p, n - 1) >> \o SplitFrom(s, n + 1)

Split(s) == SplitFrom(s, 1)

\* str.split(sep) for a one-character separator.
RECURSIVE SplitOn(_, _, _)
SplitOn(s, p, sep) ==
    LET n == FirstAt(s, p, sep)
    IN  IF n = 0 THEN << SubSeq(s, p, Len(s)) >>
        ELSE << SubSeq(s, p, n - 1) >> \o SplitOn(s, n + 1, sep)

\* sep.join(pieces) for a one-character separator.
RECURSIVE JoinWith(_, _)
JoinWith(pieces, sep) ==
    IF Len(pieces) = 0 THEN <<>>
    ELSE IF Len(pieces) = 1 THEN pieces[1]
    ELSE pieces[1] \o <<sep>> \o JoinWith(Tail(pieces), sep)

\* '\n'.join(lines)
RECURSIVE Join(_)
Join(ls) ==
    IF Len(ls) = 0 THEN <<>>
    ELSE IF Len(ls) = 1 THEN ls[1]
    ELSE ls[1] \o <<NL>> \o Join(Tail(ls))

-----------------------------------------------------------------------------
(* remove_console_logs.py: the regular expressions *)

\* r'console\.log\s*\(' matched at p: the position after the match, 0 if
\* there is no match at p.
ConsoleLogAt(s, p) ==
    IF p >= 1 /\ p + 2 <= Len(s) /\ s[p] = "console" /\ s[p + 1] = "."
       /\ s[p + 2] = "log"
    THEN LET q == SkipSpace(s, p + 3)
         IN  IF q <= Len(s) /\ s[q] = "(" THEN q + 1 ELSE 0
    ELSE 0

\* len(re.findall(r'console\.log\s*\(', content))
CountLogs(s) == Cardinality({p \in 1..Len(s) : ConsoleLogAt(s, p) # 0})

\* The last newline among positions a..b of s, 0 if there is none.
RECURSIVE LastNewline(_, _, _)
LastNewline(s, a, b) ==
    IF b < a THEN 0
    ELSE IF s[b] = NL THEN b
    ELSE LastNewline(s, a, b - 1)

\* A variant of SpaceToLineEnd that also consumes the newline ending the line.
SpaceToLineEnd_PastNewline(s, d) ==
    LET w == SkipSpace(s, d)
    IN  IF w > Len(s) THEN Len(s) + 1
        ELSE IF LastNewline(s, d, w - 1) = 0 THEN 0
        ELSE LastNewline(s, d, w - 1) + 1

\* r'\s*$' with re.MULTILINE started at d: the position after the match, 0 if
\* there is none.  The greedy \s* runs to the end of the whitespace; $ holds
\* at the end of the string, otherwise \s* gives back characters until it
\* stands before a newline.
SpaceToLineEnd(s, d) ==
    LET w == SkipSpace(s, d)
    IN  IF w > Len(s) THEN Len(s) + 1
        ELSE LastNewline(s, d, w - 1)

\* Patterns 1 and 2, r'^\s*console\.log\s*\([^)]*\);\s*$' (semi) and
\* r'^\s*console\.log\s*\([^)]*\)\s*$' (not semi), re.MULTILINE, matched at p:
\* the position after the match, 0 if there is no match at p.
StatementAt(s, p, semi) ==
    IF ~(p = 1 \/ s[p - 1] = NL) THEN 0
    ELSE LET e == ConsoleLogAt(s, SkipSpace(s, p))
             c == IF e = 0 THEN 0 ELSE FirstAt(s, e, ")")
         IN  IF c = 0 THEN 0
             ELSE IF ~semi THEN SpaceToLineEnd(s, c + 1)
             ELSE IF c + 1 <= Len(s) /\ s[c + 1] = ";"
                  THEN SpaceToLineEnd(s, c + 2)
             ELSE 0

\* re.sub(pattern 1 or 2, '', content, flags=re.MULTILINE) from position p on.
RECURSIVE SubStatements(_, _, _)
SubStatements(s, p, semi) ==
    IF p > Len(s) THEN <<>>
    ELSE LET e == StatementAt(s, p, semi)
         IN  IF e # 0 THEN SubStatements(s, e, semi)
             ELSE <<s[p]>> \o SubStatements(s, p + 1, semi)

\* Pattern 5, r'console\.log\s*\([^)]*\)\.' matched at p: the position after
\* the match, 0 if there is no match at p.
ChainAt(s, p) ==
    LET e == ConsoleLogAt(s, p)
        c == IF e = 0 THEN 0 ELSE FirstAt(s, e, ")")
    IN  IF c # 0 /\ c + 1 <= Len(s) /\ s[c + 1] = "." THEN c + 2 ELSE 0

\* re.sub(r'console\.log\s*\([^)]*\)\.', '', content) from position p on.
RECURSIVE SubChains(_, _)
SubChains(s, p) ==
    IF p > Len(s) THEN <<>>
    ELSE LET e == ChainAt(s, p)
         IN  IF e # 0 THEN SubChains(s, e)
             ELSE <<s[p]>> \o SubChains(s, p + 1)

\* r'\n\s*\n\s*\n\s*\n+' matched at p: the position after the match, 0 if
\* there is none.  The match runs from the newline at p to the last newline
\* of the whitespace around it, and needs four newlines.
BlankRunAt(s, p) ==
    IF s[p] # NL THEN 0
    ELSE LET w == SkipSpace(s, p)
             l == LastNewline(s, p, w - 1)
         IN  IF CountFrom(SubSeq(s, p, l), 1, NL) >= 4 THEN l + 1 ELSE 0

\* re.sub(r'\n\s*\n\s*\n\s*\n+', '\n\n\n', content) from position p on.
RECURSIVE SubBlankRuns(_, _)
SubBlankRuns(s, p) ==
    IF p > Len(s) THEN <<>>
    ELSE LET e == BlankRunAt(s, p)
         IN  IF e # 0 THEN <<NL, NL, NL>> \o SubBlankRuns(s, e)
             ELSE <<s[p]>> \o SubBlankRuns(s, p + 1)

-----------------------------------------------------------------------------
(* remove_console_logs.py: the multi-line pass *)

\* re.match(r'^\s*console\.log\s*\(', line)
LineStartsLog(line) == ConsoleLogAt(line, SkipSpace(line, 1)) # 0

\* The inner while loop: the first line j >= i at whose end the running
\* count of '(' minus ')' is 0, 0 if the count is 0 at no line end.
RECURSIVE BalancedAt(_, _, _)
BalancedAt(lines, j, paren_count) ==
    IF j > Len(lines) THEN 0
    ELSE LET c == paren_count + Count(lines[j], "(") - Count(lines[j], ")")
         IN  IF c = 0 THEN j ELSE BalancedAt(lines, j + 1, c)

\* A variant of MultilineFrom that drops a console.log( line whose count
\* never returns to 0.
RECURSIVE MultilineFrom_DropsUnbalanced(_, _)
MultilineFrom_DropsUnbalanced(lines, i) ==
    IF i > Len(lines) THEN <<>>
    ELSE IF LineStartsLog(lines[i])
         THEN LET j == BalancedAt(lines, i, 0)
              IN  IF j # 0 THEN MultilineFrom_DropsUnbalanced(lines, j + 1)
                  ELSE MultilineFrom_DropsUnbalanced(lines, i + 1)
    ELSE <<lines[i]>> \o MultilineFrom_DropsUnbalanced(lines, i + 1)

\* The outer while loop from line i on: result_lines.
RECURSIVE MultilineFrom(_, _)
MultilineFrom(lines, i) ==
    IF i > Len(lines) THEN <<>>
    ELSE IF LineStartsLog(lines[i])
         THEN LET j == BalancedAt(lines, i, 0)
              IN  IF j # 0 THEN MultilineFrom(lines, j + 1)
                  ELSE <<lines[i]>> \o MultilineFrom(lines, i + 1)
    ELSE <<lines[i]>> \o MultilineFrom(lines, i + 1)

remove_multiline_console_logs(text) == Join(MultilineFrom(Split(text), 1))

\* The content computed by remove_console_logs_from_file from the content
\* read: patterns 1 and 2, the multi-line pass, pattern 5, the clean-up.
RemovePattern1(s) == SubStatements(s, 1, TRUE)
RemovePattern2(s) == SubStatements(s, 1, FALSE)
RemovePattern5(s) == SubChains(s, 1)
CleanEmptyLines(s) == SubBlankRuns(s, 1)

ComputedContent(content) ==
    CleanEmptyLines(
        RemovePattern5(
            remove_multiline_console_logs(
                RemovePattern2(RemovePattern1(content)))))

-----------------------------------------------------------------------------
(* remove_console_logs.py: remove_console_logs_from_file *)

\* What the file system does during a call of
\* remove_console_logs_from_file.  read: "raises" when open(file_path, 'r')
\* raises.  backup: "fails" when backup_file raises before shutil.copy2 has
\* created the copy, "partial" when copy2 raises after it has written the
\* first cut tokens of the copy; backup_file returns False for both.
\* write: "raises" when open(file_path, 'w') raises and the file keeps its
\* content, "short" when open has truncated the file and f.write or the
\* close raises after the first cut tokens of the new content are written.
Fault(r, b, w, c) == [read |-> r, backup |-> b, write |-> w, cut |-> c]

\* The file system without faults.
NoFault == Fault("ok", "ok", "ok", 0)

\* The file systems a call can meet.
RemoverFaults ==
    {Fault("raises", "ok", "ok", 0)}
    \cup {Fault("ok", b, w, 0) : b \in {"ok", "fails"}, w \in {"ok", "raises"}}
    \cup {f \in {Fault("ok", b, w, c) : b \in {"ok", "fails", "partial"},
                                       w \in {"ok", "raises", "short"},
                                       c \in 0..MaxCut} :
              f.backup = "partial" \/ f.write = "short"}

\* The first n tokens of s, what a write of s has put on disk when it is cut
\* short after n tokens.
WrittenUpTo(s, n) == SubSeq(s, 1, n)

\* The call remove_console_logs_from_file(file_path, backup_dir) on a file
\* holding content, on a file system with the given fault.  The value gives
\* the dict returned (ret) and the effects: the content of the file
\* afterwards, whether backup_file returned True (copied), whether a copy
\* exists under the backup directory and what it holds (copy_left, copy),
\* whether the file was opened for writing, and the content read and
\* computed.
\* 'if original_count == 0: return ...'
NothingToRemove(original_count) == original_count = 0

\* A variant of ShouldWrite that writes whenever something was computed.
ShouldWrite_Always(content, original_content) == TRUE

\* 'modified = content != original_content; if modified: open(..., 'w')'
ShouldWrite(content, original_content) == content # original_content

remove_console_logs_from_file(file_path, content, bdir, fault) ==
    LET failed == [ret |-> [file |-> file_path, original_logs |-> 0,
                            removed_logs |-> 0, remaining_logs |-> 0,
                            modified |-> FALSE, backed_up |-> FALSE,
                            error |-> "err"],
                   after |-> content, copied |-> FALSE, opened_w |-> FALSE,
                   read_ok |-> FALSE, computed |-> content,
                   copy_left |-> FALSE, copy |-> <<>>]
        original_count == CountLogs(content)
    IN  IF fault.read = "raises" THEN failed
        ELSE IF NothingToRemove(original_count)
        THEN [ret |-> [file |-> file_path, original_logs |-> 0,
                       removed_logs |-> 0, modified |-> FALSE,
                       backed_up |-> FALSE, error |-> "None"],
              after |-> content, copied |-> FALSE, opened_w |-> FALSE,
              read_ok |-> TRUE, computed |-> content,
              copy_left |-> FALSE, copy |-> <<>>]
        ELSE LET partial == fault.backup = "partial" /\ fault.cut < Len(content)
                 backed_up == bdir /\ fault.backup # "fails" /\ ~partial
                 copy_left == bdir /\ fault.backup # "fails"
                 copy == IF partial THEN WrittenUpTo(content, fault.cut) ELSE content
                 computed == ComputedContent(content)
                 remaining_count == CountLogs(computed)
                 modified == ShouldWrite(computed, content)
                 short == fault.write = "short" /\ fault.cut < Len(computed)
             IN  IF modified /\ (fault.write = "raises" \/ short)
                 THEN [failed EXCEPT !.copied = backed_up, !.opened_w = TRUE,
                                     !.read_ok = TRUE, !.computed = computed,
                                     !.copy_left = copy_left,
                                     !.copy = IF copy_left THEN copy ELSE <<>>,
                                     !.after = IF short
                                               THEN WrittenUpTo(computed, fault.cut)
                                               ELSE content]
                 ELSE [ret |-> [file |-> file_path,
                                original_logs |-> original_count,
                                removed_logs |-> original_count - remaining_count,
                                remaining_logs |-> remaining_count,
                                modified |-> modified,
                                backed_up |-> backed_up,
                                error |-> "None"],
                       after |-> computed, copied |-> backed_up,
                       opened_w |-> modified, read_ok |-> TRUE,
                       computed |-> computed,
                       copy_left |-> copy_left,
                       copy |-> IF copy_left THEN copy ELSE <<>>]

-----------------------------------------------------------------------------
(* The remover applied to one file: inputs *)

\* Lines the generated files are made of.
LineFunction == <<"function", " ", "foo", "(", ")", " ", "{">>
LineLog      == <<" ", " ", "console", ".", "log", "(", "\"", "x", "\"", ")", ";">>
LineClose    == <<"}">>
LineEmpty    == <<>>
LineChained  == <<"foo", "(", "console", ".", "log", "(", "a", ")", ".", "b", ")", ";">>
LineInline   == <<"if", " ", "(", "a", ")", " ", "console", ".", "log", "(", "a", ")", ";">>
LineSplice   == <<"console", ".", "log", "(", "(", "a", ")", ".",
                  "console", ".", "log", "(", "a", ")", ";">>
LineEndCall  == <<" ", " ", "a", ")", ";">>
LineTrailing == <<"console", ".", "log", "(", "a", ")", ";", " ",
                  "b", "(", ")", ";">>
LineNested   == <<"console", ".", "log", "(", "foo", "(", "a", ")", ")", ";">>
LineParenString == <<"console", ".", "log", "(", "\"", ")", "\"", ")", ";">>
LineCall     == <<"foo", "(", "a", ")", ";">>
LineOpenCall == <<"foo", "(">>
LineTwoCalls == <<"console", ".", "log", "(", "a", ")", ";", " ",
                  "foo", "(", "console", ".", "log", "(", "b", ")", ")", ";">>

RemoverLines ==
    {LineFunction, LineLog, LineClose, LineEmpty, LineChained, LineInline,
     LineSplice, LineEndCall}

\* The file contents the remover is run on: up to MaxLines lines, joined by
\* newlines, with or without a newline at the end of the file.
\* Files in which a console.log call with nested parentheses or with another
\* statement on its line follows a line of any kind.
CallLineInputs ==
    {Join(<<l1, l2, LineClose>>) \o <<NL>> :
        l1 \in {LineFunction, LineSplice, LineEmpty},
        l2 \in {LineTrailing, LineNested}}

\* Files in which a console.log call prints a string that holds a ')' and
\* is followed by other statements, one of them a call spread over two lines.
ParenStringInputs ==
    {Join(<<LineParenString, LineCall, LineOpenCall, LineEndCall>>) \o <<NL>>,
     Join(<<LineFunction, LineParenString, LineCall, LineOpenCall,
            LineEndCall, LineClose>>) \o <<NL>>,
     Join(<<LineParenString, LineCall>>) \o <<NL>>}

\* Files in which a line that starts with console.log( and whose count of
\* parentheses never returns to 0 follows a console.log statement that the
\* multi-line pass drops or one whose count it closes, and files in which a
\* console.log call nested in another statement stands on a line with a
\* console.log statement or between the lines of one.
PassInputs ==
    {Join(<<LineSplice, LineParenString, LineClose>>) \o <<NL>>,
     Join(<<LineNested, LineSplice, LineClose>>) \o <<NL>>,
     Join(<<LineFunction, LineNested, LineSplice, LineCall, LineNested,
            LineClose>>) \o <<NL>>,
     LineTwoCalls \o <<NL>>,
     Join(<<LineParenString, LineInline, LineOpenCall>>) \o <<NL>>}

RemoverInputs ==
    {Join(ls) \o tail :
        ls \in UNION {[1..n -> RemoverLines] : n \in 0..MaxLines},
        tail \in {<<>>, <<NL>>}}
    \cup CallLineInputs \cup ParenStringInputs \cup PassInputs

\* The file of the end-to-end scenario: 'function foo() {\n  console.log("x");\n}\n'
SampleFile == Join(<<LineFunction, LineLog, LineClose>>) \o <<NL>>

ThePath == <<"app", "/", "t", ".", "js">>

\* proceed and answer before the prompt is answered.
Unasked == <<"unasked">>

\* report before a script has started its scan.
NoReport == [n_files |-> 0]

\* The variables of the suite while neither controller nor script runs.
SuiteIdle ==
    /\ files = <<>>
    /\ ctl = "off" /\ choice = <<>> /\ confirmed = FALSE /\ selection = <<>>
    /\ outcomes = <<>> /\ rounds = 0 /\ raised = "None"
    /\ script = "none" /\ spc = "idle" /\ proceed = Unasked /\ answer = Unasked /\ todo = <<>>
    /\ analysed = {} /\ faulted = {} /\ report = NoReport

\* The variables of the analyzers while no analyzer runs.
AnIdle ==
    /\ tool = "none"
    /\ src = <<>>
    /\ pc = "idle"
    /\ line_i = 0
    /\ found = <<>>
    /\ examined = <<>>
    /\ lengths = <<>>

RmInit ==
    /\ fileContent \in RemoverInputs
    /\ backup_dir = TRUE
    /\ backups = <<>>
    /\ writes = 0
    /\ results = <<>>
    /\ AnIdle
    /\ SuiteIdle

\* One call of remove_console_logs_from_file on the file, with a backup
\* directory, on a file system without faults.  results keeps the value of
\* the call and the content the file held before it.
RemoveFromFile ==
    /\ Len(results) < MaxRuns
    /\ LET r == remove_console_logs_from_file(ThePath, fileContent, backup_dir, NoFault)
       IN  /\ fileContent' = r.after
           /\ backups' = IF r.copied THEN Append(backups, fileContent) ELSE backups
           /\ writes' = IF r.opened_w THEN writes + 1 ELSE writes
           /\ results' = Append(results, [call |-> r, before |-> fileContent])
    /\ UNCHANGED <<backup_dir, anVars, files, ctlVars, runVars>>

RmNext == RemoveFromFile

SpecRemove == RmInit /\ [][RmNext]_vars

-----------------------------------------------------------------------------
(* Words and line access of the analyzers *)

\* The one-character tokens that are no word characters.  Every other token
\* is a word: a run of characters \w matches.  No word of the model contains
\* a literal of the source other than itself.
Punctuation ==
    {" ", "\n", "(", ")", "{", "}", ";", ":", ".", ",", "\"", "'", "/", "*",
     "@", "=", ">", "<", "!", "-", "#"}

IsWord(t) == t \notin Punctuation

\* lines[i] of the source, i counted from 0 as in the source.
LineAt(lines, i) == lines[i + 1]

\* i + 1 < len(lines) and lines[i + 1].strip() == '{'
NextLineIsBrace(lines, i) ==
    i + 1 < Len(lines) /\ Strip(LineAt(lines, i + 1)) = <<"{">>

\* The end of the run of \w characters starting at p (p - 1 if s[p] is no word).
RECURSIVE WordRunEnd(_, _)
WordRunEnd(s, p) ==
    IF p <= Len(s) /\ IsWord(s[p]) THEN WordRunEnd(s, p + 1) ELSE p - 1

\* r'(\w+)\s*\(' matched with the group starting at p: TRUE when a run of
\* word characters starts at p and is followed by blanks and '('.
CallNameAt(s, p) ==
    /\ p <= Len(s) /\ IsWord(s[p])
    /\ LET q == SkipSpace(s, WordRunEnd(s, p) + 1)
       IN  q <= Len(s) /\ s[q] = "("

\* re.search(r'(\w+)\s*\(', method_line).group(1), <<>> when there is no match.
FirstCallName(s) ==
    IF \E p \in 1..Len(s) : CallNameAt(s, p)
    THEN LET p == CHOOSE p \in 1..Len(s) :
                      /\ CallNameAt(s, p)
                      /\ \A q \in 1..(p - 1) : ~CallNameAt(s, q)
         IN  SubSeq(s, p, WordRunEnd(s, p))
    ELSE <<>>

\* r'function\s+(\w+)\s*\(' matched at p: 'function', at least one blank, a name.
FunctionNameAt(s, p) ==
    /\ s[p] = "function"
    /\ p + 1 <= Len(s) /\ IsSpace(s[p + 1])
    /\ CallNameAt(s, SkipSpace(s, p + 1))

\* re.search(r'function\s+(\w+)\s*\(', method_line).group(1), <<>> when there
\* is no match.
FunctionName(s) ==
    IF \E p \in 1..Len(s) : FunctionNameAt(s, p)
    THEN LET p == CHOOSE p \in 1..Len(s) :
                      /\ FunctionNameAt(s, p)
                      /\ \A q \in 1..(p - 1) : ~FunctionNameAt(s, q)
             n == SkipSpace(s, p + 1)
         IN  SubSeq(s, n, WordRunEnd(s, n))
    ELSE <<>>

-----------------------------------------------------------------------------
(* analyze_jsdoc_coverage.py *)

\* The first test of the while loop of analyze_jsdoc_coverage: the lines it
\* passes over without looking for a declaration.
SkippedLine_jsdoc(stripped) ==
    \/ stripped = <<>>
    \/ StartsWith(stripped, <<"/", "/">>)
    \/ StartsWith(stripped, <<"*">>)
    \/ StartsWith(stripped, <<"/", "*">>)
    \/ StartsWith(stripped, <<"export", " ">>)
    \/ StartsWith(stripped, <<"import", " ">>)
    \/ StartsWith(stripped, <<"@">>)
    \/ Contains(stripped, <<"interface">>)
    \/ Contains(stripped, <<"enum">>)
    \/ Contains(stripped, <<"type", " ">>)
    \/ (StartsWith(stripped, <<"class", " ">>) /\ Contains(stripped, <<"{">>))

\* The Angular lifecycle hooks is_method_declaration and extract_method_name
\* of the JSDoc analyzer know.
Hooks_jsdoc ==
    {"ngOnInit", "ngOnDestroy", "ngOnChanges", "ngAfterViewInit",
     "ngAfterContentInit", "ngAfterViewChecked", "ngAfterContentChecked"}

\* A variant of is_method_declaration_jsdoc without the rule for 'function '.
is_method_declaration_jsdoc_NoFunction(stripped, lines, i) ==
    /\ Contains(stripped, <<"(">>) /\ Contains(stripped, <<")">>)
    /\ Contains(stripped, <<":">>)
    /\ (Contains(stripped, <<"{">>) \/ NextLineIsBrace(lines, i))

\* A variant of is_method_declaration_jsdoc that tests for 'constructor',
\* 'function ', 'async ' and the lifecycle hooks before the exclusions.
is_method_declaration_jsdoc_PositiveFirst(stripped, lines, i) ==
    LET parens == Contains(stripped, <<"(">>) /\ Contains(stripped, <<")">>)
        startsDecl == \E w \in {"const", "let", "var"} :
                          StartsWith(stripped, <<w, " ">>)
    IN  IF \E w \in {"describe", "it", "beforeEach", "afterEach", "beforeAll",
                     "afterAll"} : StartsWith(stripped, <<w, "(">>)
        THEN FALSE
        ELSE IF StartsWith(stripped, <<"constructor">>) THEN TRUE
        ELSE IF /\ parens
                /\ \/ StartsWith(stripped, <<"async", " ">>)
                   \/ StartsWith(stripped, <<"function", " ">>)
        THEN TRUE
        ELSE IF \E h \in Hooks_jsdoc : StartsWith(stripped, <<h>>) THEN TRUE
        ELSE IF Contains(stripped, <<"=", ">">>) THEN FALSE
        ELSE IF \/ StartsWith(stripped, <<"return", " ">>)
                \/ startsDecl
                \/ Contains(stripped, <<"=", " ">>)
                \/ StartsWith(stripped, <<"this", ".">>)
                \/ \E w \in {"Math", "console", "document", "window",
                             "localStorage", "sessionStorage"} :
                       Contains(stripped, <<w, ".">>)
        THEN FALSE
        ELSE IF /\ parens
                /\ ~EndsWith(stripped, <<"{">>)
                /\ ~EndsWith(stripped, <<":">>)
                /\ ~NextLineIsBrace(lines, i)
        THEN FALSE
        ELSE /\ parens
             /\ Contains(stripped, <<":">>)
             /\ (Contains(stripped, <<"{">>) \/ NextLineIsBrace(lines, i))

\* is_method_declaration of analyze_jsdoc_coverage.py: the exclusions first,
\* then the positive rules.
is_method_declaration_jsdoc(stripped, lines, i) ==
    LET parens == Contains(stripped, <<"(">>) /\ Contains(stripped, <<")">>)
        startsDecl == \E w \in {"const", "let", "var"} :
                          StartsWith(stripped, <<w, " ">>)
    IN  IF \E w \in {"describe", "it", "beforeEach", "afterEach", "beforeAll",
                     "afterAll"} : StartsWith(stripped, <<w, "(">>)
        THEN FALSE
        ELSE IF Contains(stripped, <<"=", ">">>) THEN FALSE
        ELSE IF startsDecl /\ Contains(stripped, <<"=">>) THEN FALSE
        ELSE IF \/ StartsWith(stripped, <<"return", " ">>)
                \/ startsDecl
                \/ Contains(stripped, <<"=", " ">>)
                \/ StartsWith(stripped, <<"this", ".">>)
                \/ \E w \in {"Math", "console", "document", "window",
                             "localStorage", "sessionStorage"} :
                       Contains(stripped, <<w, ".">>)
        THEN FALSE
        ELSE IF /\ parens
                /\ ~EndsWith(stripped, <<"{">>)
                /\ ~EndsWith(stripped, <<":">>)
                /\ ~NextLineIsBrace(lines, i)
        THEN FALSE
        ELSE IF StartsWith(stripped, <<"constructor">>) THEN TRUE
        ELSE IF /\ parens
                /\ \/ /\ Contains(stripped, <<":">>)
                      /\ (Contains(stripped, <<"{">>) \/ NextLineIsBrace(lines, i))
                   \/ StartsWith(stripped, <<"async", " ">>)
                   \/ StartsWith(stripped, <<"function", " ">>)
        THEN TRUE
        ELSE \E h \in Hooks_jsdoc : StartsWith(stripped, <<h>>)

\* extract_method_name of analyze_jsdoc_coverage.py.  Every pattern after the
\* second holds r'(\w+)\s*\(' and so matches only where the second does.
extract_method_name_jsdoc(method_line) ==
    IF StartsWith(method_line, <<"constructor">>) THEN <<"constructor">>
    ELSE IF \E h \in Hooks_jsdoc : StartsWith(method_line, <<h>>)
    THEN <<method_line[1]>>
    ELSE IF FunctionName(method_line) # <<>> THEN FunctionName(method_line)
    ELSE IF FirstCallName(method_line) # <<>> THEN FirstCallName(method_line)
    ELSE <<"unknown_method">>

\* determine_method_type.  'ngAfterView' in method_line holds for the two
\* words that contain it.
determine_method_type(method_line) ==
    IF StartsWith(method_line, <<"constructor">>) THEN "Constructor"
    ELSE IF \E h \in {"ngOnInit", "ngOnDestroy", "ngOnChanges",
                        "ngAfterViewInit", "ngAfterViewChecked"} :
                Contains(method_line, <<h>>)
    THEN "Lifecycle Hook"
    ELSE IF StartsWith(method_line, <<"private">>) THEN "Private Method"
    ELSE IF StartsWith(method_line, <<"public">>) THEN "Public Method"
    ELSE IF StartsWith(method_line, <<"protected">>) THEN "Protected Method"
    ELSE IF StartsWith(method_line, <<"static">>) THEN "Static Method"
    ELSE IF StartsWith(method_line, <<"function">>) THEN "Function"
    ELSE IF StartsWith(method_line, <<"async">>) THEN "Async Method"
    ELSE IF Contains(method_line, <<"get", " ">>) THEN "Getter"
    ELSE IF Contains(method_line, <<"set", " ">>) THEN "Setter"
    ELSE "Method"

\* A variant of JsdocStartAbove that accepts a line starting with '/**'
\* whatever stands between it and the line ending in '*/'.
JsdocStartAbove_OverAnyLine(lines, j) ==
    \E s \in 0..j : StartsWith(Strip(LineAt(lines, s)), <<"/", "*", "*">>)

\* The inner loop of check_for_jsdoc: from the line ending in '*/' backward
\* to a line starting with '/**', over lines that are empty or start with
\* '*' or '/*'.
RECURSIVE JsdocStartAbove(_, _)
JsdocStartAbove(lines, j) ==
    IF j < 0 THEN FALSE
    ELSE LET jsdoc_line == Strip(LineAt(lines, j))
         IN  IF StartsWith(jsdoc_line, <<"/", "*", "*">>) THEN TRUE
             ELSE IF ~(\/ StartsWith(jsdoc_line, <<"*">>)
                       \/ StartsWith(jsdoc_line, <<"/", "*">>)
                       \/ jsdoc_line = <<>>)
             THEN FALSE
             ELSE JsdocStartAbove(lines, j - 1)

\* The outer loop of check_for_jsdoc from line i backward.
RECURSIVE CheckAbove(_, _)
CheckAbove(lines, i) ==
    IF i < 0 THEN FALSE
    ELSE LET line == Strip(LineAt(lines, i))
         IN  IF line = <<>> THEN CheckAbove(lines, i - 1)
             ELSE IF StartsWith(line, <<"@">>) THEN CheckAbove(lines, i - 1)
             ELSE IF \E w \in {"public", "private", "protected", "static",
                               "readonly"} : line = <<w>>
             THEN CheckAbove(lines, i - 1)
             ELSE IF EndsWith(line, <<"*", "/">>) THEN JsdocStartAbove(lines, i)
             ELSE IF StartsWith(line, <<"/", "*", "*">>) /\ EndsWith(line, <<"*", "/">>)
             THEN TRUE
             ELSE IF StartsWith(line, <<"/", "/">>) \/ ~StartsWith(line, <<"*">>)
             THEN FALSE
             ELSE CheckAbove(lines, i - 1)

check_for_jsdoc(lines, method_line_index) == CheckAbove(lines, method_line_index - 1)

\* A variant of MethodEnds that leaves out the method_started flag.
MethodEnds_NotStarted(method_started, brace_count) == brace_count <= 0

\* 'if method_started and brace_count <= 0': the line closes the construct.
MethodEnds(method_started, brace_count) == method_started /\ brace_count <= 0

\* The boundary loop of analyze_method_jsdoc from line i on, with the brace
\* count and the started flag of the lines before i: end_line.  Without a
\* break end_line stays start_line.
RECURSIVE FindEnd_jsdoc(_, _, _, _, _)
FindEnd_jsdoc(lines, start_line, i, brace_count, method_started) ==
    IF i >= Len(lines) THEN start_line
    ELSE LET line == LineAt(lines, i)
             open_braces == Count(line, "{")
             close_braces == Count(line, "}")
             started == method_started \/ open_braces > 0
             count == brace_count + open_braces - close_braces
         IN  IF MethodEnds(started, count) THEN i
             ELSE IF /\ Contains(Strip(LineAt(lines, start_line)), <<"=", ">">>)
                     /\ Contains(line, <<";">>)
             THEN i
             ELSE FindEnd_jsdoc(lines, start_line, i + 1, count, started)

\* analyze_method_jsdoc: the descriptor of the construct starting at start_line.
\* extract_method_name never returns an empty name, so 'return None' is not
\* taken.
analyze_method_jsdoc(lines, start_line, file_path) ==
    LET method_line == Strip(LineAt(lines, start_line))
    IN  [file |-> file_path,
         method_name |-> extract_method_name_jsdoc(method_line),
         start_line |-> start_line + 1,
         end_line |-> FindEnd_jsdoc(lines, start_line, start_line, 0, FALSE) + 1,
         declaration |-> method_line,
         has_jsdoc |-> check_for_jsdoc(lines, start_line),
         method_type |-> determine_method_type(method_line)]

\* A variant of JsdocAt that takes every line it does not pass over for the
\* start of a construct.
JsdocAt_EveryLine(lines, i, file_path) ==
    LET stripped == Strip(LineAt(lines, i))
    IN  IF SkippedLine_jsdoc(stripped) THEN [next |-> i + 1, infos |-> <<>>]
        ELSE LET method_info == analyze_method_jsdoc(lines, i, file_path)
             IN  [next |-> method_info.end_line, infos |-> <<method_info>>]

\* A variant of JsdocAt that goes on with the last line of the construct
\* instead of the line after it.
JsdocAt_AtEndLine(lines, i, file_path) ==
    LET stripped == Strip(LineAt(lines, i))
    IN  IF SkippedLine_jsdoc(stripped) THEN [next |-> i + 1, infos |-> <<>>]
        ELSE IF is_method_declaration_jsdoc(stripped, lines, i)
        THEN LET method_info == analyze_method_jsdoc(lines, i, file_path)
             IN  [next |-> method_info.end_line - 1, infos |-> <<method_info>>]
        ELSE [next |-> i + 1, infos |-> <<>>]

\* The body of the while loop of analyze_jsdoc_coverage at index i: the index
\* the loop goes on with and the descriptor analyze_method_jsdoc gave, if it
\* was called.
JsdocAt(lines, i, file_path) ==
    LET stripped == Strip(LineAt(lines, i))
    IN  IF SkippedLine_jsdoc(stripped) THEN [next |-> i + 1, infos |-> <<>>]
        ELSE IF is_method_declaration_jsdoc(stripped, lines, i)
        THEN LET method_info == analyze_method_jsdoc(lines, i, file_path)
             IN  [next |-> method_info.end_line, infos |-> <<method_info>>]
        ELSE [next |-> i + 1, infos |-> <<>>]

\* 'if method_info and not method_info['has_jsdoc']'
MissingOf(infos) == SelectSeq(infos, LAMBDA m : ~m.has_jsdoc)

\* The while loop of analyze_jsdoc_coverage from index i on: missing_jsdoc.
RECURSIVE MissingFrom(_, _, _)
MissingFrom(lines, i, file_path) ==
    IF i >= Len(lines) THEN <<>>
    ELSE LET a == JsdocAt(lines, i, file_path)
         IN  MissingOf(a.infos) \o MissingFrom(lines, a.next, file_path)

\* A variant of analyze_jsdoc_coverage whose 'except' returns what the
\* analysis of the content gives.
analyze_jsdoc_coverage_KeepsOnError(file_path, content, fault) ==
    MissingFrom(Split(content), 0, file_path)

\* analyze_jsdoc_coverage: the undocumented constructs of a file; [] when the
\* file cannot be read.
analyze_jsdoc_coverage(file_path, content, fault) ==
    IF fault = "read" THEN <<>> ELSE MissingFrom(Split(content), 0, file_path)

-----------------------------------------------------------------------------
(* analyze_method_length_simple.py *)

\* Methods with more code lines than this are reported.
LongMethodThreshold == 14

\* The first test of the while loop of analyze_method_length.
SkippedLine_length(stripped) ==
    \/ stripped = <<>>
    \/ StartsWith(stripped, <<"/", "/">>)
    \/ StartsWith(stripped, <<"*">>)
    \/ StartsWith(stripped, <<"/", "*">>)
    \/ StartsWith(stripped, <<"export", " ">>)
    \/ StartsWith(stripped, <<"import", " ">>)
    \/ StartsWith(stripped, <<"@">>)
    \/ Contains(stripped, <<"interface">>)
    \/ Contains(stripped, <<"enum">>)
    \/ (StartsWith(stripped, <<"class", " ">>) /\ Contains(stripped, <<"{">>))

\* is_method_declaration of analyze_method_length_simple.py.
is_method_declaration_length(stripped, lines, i) ==
    IF StartsWith(stripped, <<"constructor">>) THEN TRUE
    ELSE IF /\ Contains(stripped, <<"(">>) /\ Contains(stripped, <<")">>)
            /\ \/ /\ Contains(stripped, <<":">>)
                  /\ (Contains(stripped, <<"{">>) \/ NextLineIsBrace(lines, i))
               \/ StartsWith(stripped, <<"async", " ">>)
    THEN TRUE
    ELSE \E h \in {"ngOnInit", "ngOnDestroy", "ngOnChanges", "ngAfterViewInit"} :
             StartsWith(stripped, <<h>>)

\* extract_method_name of analyze_method_length_simple.py; <<>> stands for None.
extract_method_name_length(method_line) ==
    IF StartsWith(method_line, <<"constructor">>) THEN <<"constructor">>
    ELSE IF \E h \in {"ngOnInit", "ngOnDestroy", "ngOnChanges", "ngAfterViewInit"} :
                StartsWith(method_line, <<h>>)
    THEN <<method_line[1]>>
    ELSE FirstCallName(method_line)

\* 'Count actual code lines (not empty, not comments, not just braces)'
IsCodeLine(method_started, stripped) ==
    /\ method_started
    /\ stripped # <<>>
    /\ ~StartsWith(stripped, <<"/", "/">>)
    /\ ~StartsWith(stripped, <<"*">>)
    /\ ~StartsWith(stripped, <<"/", "*">>)
    /\ stripped # <<"{">>
    /\ stripped # <<"}">>

\* A variant of ScanMethod whose brace count does not go below 0.
RECURSIVE ScanMethod_Clamped(_, _, _, _, _, _, _, _)
ScanMethod_Clamped(lines, start_line, file_path, i, brace_count, method_started, code_lines, total_lines) ==
    IF i >= Len(lines) THEN [found |-> FALSE]
    ELSE LET line == LineAt(lines, i)
             open_braces == Count(line, "{")
             close_braces == Count(line, "}")
             started == method_started \/ open_braces > 0
             sum == brace_count + open_braces - close_braces
             count == IF sum < 0 THEN 0 ELSE sum
         IN  IF started /\ count <= 0
             THEN [found |-> TRUE,
                   file |-> file_path,
                   method_name |-> extract_method_name_length(Strip(LineAt(lines, start_line))),
                   start_line |-> start_line + 1,
                   end_line |-> i + 1,
                   total_lines |-> total_lines + 1,
                   code_lines |-> code_lines,
                   declaration |-> Strip(LineAt(lines, start_line))]
             ELSE ScanMethod_Clamped(lines, start_line, file_path, i + 1, count,
                                     started, code_lines, total_lines + 1)

\* A variant of ScanMethod that returns what it has counted when it reaches
\* the end of the file.
RECURSIVE ScanMethod_PartialAtEnd(_, _, _, _, _, _, _, _)
ScanMethod_PartialAtEnd(lines, start_line, file_path, i, brace_count, method_started, code_lines, total_lines) ==
    IF i >= Len(lines)
    THEN [found |-> TRUE,
          file |-> file_path,
          method_name |-> extract_method_name_length(Strip(LineAt(lines, start_line))),
          start_line |-> start_line + 1,
          end_line |-> start_line + 1,
          total_lines |-> total_lines,
          code_lines |-> code_lines,
          declaration |-> Strip(LineAt(lines, start_line))]
    ELSE LET line == LineAt(lines, i)
             stripped == Strip(line)
             open_braces == Count(line, "{")
             close_braces == Count(line, "}")
             started == method_started \/ open_braces > 0
             count == brace_count + open_braces - close_braces
             code == IF IsCodeLine(started, stripped) THEN code_lines + 1
                     ELSE code_lines
         IN  IF started /\ count <= 0
             THEN [found |-> TRUE,
                   file |-> file_path,
                   method_name |-> extract_method_name_length(Strip(LineAt(lines, start_line))),
                   start_line |-> start_line + 1,
                   end_line |-> i + 1,
                   total_lines |-> total_lines + 1,
                   code_lines |-> code,
                   declaration |-> Strip(LineAt(lines, start_line))]
             ELSE ScanMethod_PartialAtEnd(lines, start_line, file_path, i + 1, count,
                                          started, code, total_lines + 1)

\* The loop of analyze_method_from_line from line i on: the descriptor, or
\* [found |-> FALSE] for None when the end of the file is reached.
RECURSIVE ScanMethod(_, _, _, _, _, _, _, _)
ScanMethod(lines, start_line, file_path, i, brace_count, method_started, code_lines, total_lines) ==
    IF i >= Len(lines) THEN [found |-> FALSE]
    ELSE LET line == LineAt(lines, i)
             stripped == Strip(line)
             open_braces == Count(line, "{")
             close_braces == Count(line, "}")
             started == method_started \/ open_braces > 0
             count == brace_count + open_braces - close_braces
             code == IF IsCodeLine(started, stripped) THEN code_lines + 1
                     ELSE code_lines
         IN  IF started /\ count <= 0
             THEN [found |-> TRUE,
                   file |-> file_path,
                   method_name |-> extract_method_name_length(Strip(LineAt(lines, start_line))),
                   start_line |-> start_line + 1,
                   end_line |-> i + 1,
                   total_lines |-> total_lines + 1,
                   code_lines |-> code,
                   declaration |-> Strip(LineAt(lines, start_line))]
             ELSE ScanMethod(lines, start_line, file_path, i + 1, count, started,
                             code, total_lines + 1)

\* analyze_method_from_line: None without a method name.
analyze_method_from_line(lines, start_line, file_path) ==
    IF extract_method_name_length(Strip(LineAt(lines, start_line))) = <<>>
    THEN [found |-> FALSE]
    ELSE ScanMethod(lines, start_line, file_path, start_line, 0, FALSE, 0, 0)

\* A variant of MethodAt that goes on with the line after the start line
\* whatever analyze_method_from_line returned.
MethodAt_IntoBody(lines, i, file_path) ==
    LET stripped == Strip(LineAt(lines, i))
    IN  IF SkippedLine_length(stripped) THEN [next |-> i + 1, infos |-> <<>>]
        ELSE IF is_method_declaration_length(stripped, lines, i)
        THEN [next |-> i + 1,
              infos |-> <<analyze_method_from_line(lines, i, file_path)>>]
        ELSE [next |-> i + 1, infos |-> <<>>]

\* The body of the while loop of analyze_method_length at index i: the index
\* the loop goes on with and what analyze_method_from_line returned, if it
\* was called.
MethodAt(lines, i, file_path) ==
    LET stripped == Strip(LineAt(lines, i))
    IN  IF SkippedLine_length(stripped) THEN [next |-> i + 1, infos |-> <<>>]
        ELSE IF is_method_declaration_length(stripped, lines, i)
        THEN LET method_info == analyze_method_from_line(lines, i, file_path)
             IN  [next |-> IF method_info.found THEN method_info.end_line ELSE i + 1,
                  infos |-> <<method_info>>]
        ELSE [next |-> i + 1, infos |-> <<>>]

\* A variant of LongOf that also takes a method of exactly
\* LongMethodThreshold code lines.
LongOf_AtThreshold(infos) ==
    SelectSeq(infos, LAMBDA m : m.found /\ m.code_lines >= LongMethodThreshold)

\* 'if method_info and method_info['code_lines'] > 14'
LongOf(infos) ==
    SelectSeq(infos, LAMBDA m : m.found /\ m.code_lines > LongMethodThreshold)

\* The while loop of analyze_method_length from index i on: long_methods.
RECURSIVE LongFrom(_, _, _)
LongFrom(lines, i, file_path) ==
    IF i >= Len(lines) THEN <<>>
    ELSE LET a == MethodAt(lines, i, file_path)
         IN  LongOf(a.infos) \o LongFrom(lines, a.next, file_path)

\* analyze_method_length: the long methods of a file; [] when the file cannot
\* be read.
analyze_method_length(file_path, content, fault) ==
    IF fault = "read" THEN <<>> ELSE LongFrom(Split(content), 0, file_path)

-----------------------------------------------------------------------------
(* analyze_file_length.py *)

\* f.readlines(): the lines of the file, a newline at the end of the file
\* ending the last line rather than starting a new one.  The line endings
\* are left out: every use strips the line.
ReadLines(s) ==
    IF s = <<>> THEN <<>>
    ELSE IF s[Len(s)] = NL THEN Split(SubSeq(s, 1, Len(s) - 1))
    ELSE Split(s)

\* The for loop of analyze_file_length from line k on (k from 1):
\* <<comment_lines, jsdoc_lines>>.
RECURSIVE CountComments(_, _, _, _, _, _)
CountComments(lines, k, comment_lines, jsdoc_lines, in_multiline_comment, in_jsdoc_block) ==
    IF k > Len(lines) THEN <<comment_lines, jsdoc_lines>>
    ELSE LET stripped == Strip(lines[k])
         IN  IF StartsWith(stripped, <<"/", "*", "*">>)
             THEN CountComments(lines, k + 1, comment_lines, jsdoc_lines + 1,
                                in_multiline_comment, TRUE)
             ELSE IF StartsWith(stripped, <<"/", "*">>)
             THEN CountComments(lines, k + 1, comment_lines + 1, jsdoc_lines,
                                TRUE, in_jsdoc_block)
             ELSE IF EndsWith(stripped, <<"*", "/">>)
             THEN IF in_jsdoc_block
                  THEN CountComments(lines, k + 1, comment_lines, jsdoc_lines + 1,
                                     in_multiline_comment, FALSE)
                  ELSE IF in_multiline_comment
                  THEN CountComments(lines, k + 1, comment_lines + 1, jsdoc_lines,
                                     FALSE, in_jsdoc_block)
                  ELSE CountComments(lines, k + 1, comment_lines, jsdoc_lines,
                                     in_multiline_comment, in_jsdoc_block)
             ELSE IF in_jsdoc_block
             THEN CountComments(lines, k + 1, comment_lines, jsdoc_lines + 1,
                                in_multiline_comment, in_jsdoc_block)
             ELSE IF in_multiline_comment
             THEN CountComments(lines, k + 1, comment_lines + 1, jsdoc_lines,
                                in_multiline_comment, in_jsdoc_block)
             ELSE IF \/ StartsWith(stripped, <<"/", "/">>)
                     \/ StartsWith(stripped, <<"*">>)
                     \/ StartsWith(stripped, <<"<", "!", "-", "-">>)
                     \/ StartsWith(stripped, <<"#">>)
             THEN CountComments(lines, k + 1, comment_lines + 1, jsdoc_lines,
                                in_multiline_comment, in_jsdoc_block)
             ELSE CountComments(lines, k + 1, comment_lines, jsdoc_lines,
                                in_multiline_comment, in_jsdoc_block)

\* The position of the last token of s equal to t, 0 when there is none.
LastIndexOf(s, t) ==
    IF \E k \in 1..Len(s) : s[k] = t
    THEN CHOOSE k \in 1..Len(s) : s[k] = t /\ \A m \in (k + 1)..Len(s) : s[m] # t
    ELSE 0

\* os.path.splitext(file_path)[1]: from the last dot of the last path
\* component on, empty when that component has no dot after its first
\* non-dot token.
SplitExt(file_path) ==
    LET base == SubSeq(file_path, LastIndexOf(file_path, "/") + 1, Len(file_path))
        dot == LastIndexOf(base, ".")
    IN  IF dot > 1 /\ \E k \in 1..(dot - 1) : base[k] # "."
        THEN SubSeq(base, dot, Len(base)) ELSE <<>>

\* get_file_type: the file type for the extension, in lower case.
get_file_type(file_path) ==
    LET ext == SplitExt(file_path)
        extension == Lower(ext)
    IN  CASE extension = <<".", "html">> -> "HTML"
          [] extension = <<".", "css">> -> "CSS"
          [] extension = <<".", "scss">> -> "SCSS"
          [] extension = <<".", "sass">> -> "SASS"
          [] extension = <<".", "js">> -> "JavaScript"
          [] extension = <<".", "ts">> -> "TypeScript"
          [] OTHER -> "Unknown"

\* analyze_file_length: the counts of one file.
analyze_file_length(file_path, content) ==
    LET lines == ReadLines(content)
        non_empty_lines == Cardinality({k \in 1..Len(lines) : Strip(lines[k]) # <<>>})
        counts == CountComments(lines, 1, 0, 0, FALSE, FALSE)
    IN  [file |-> file_path,
         total_lines |-> Len(lines),
         non_empty_lines |-> non_empty_lines,
         comment_lines |-> counts[1],
         jsdoc_lines |-> counts[2],
         code_lines |-> non_empty_lines - counts[1] - counts[2],
         file_type |-> get_file_type(file_path)]

-----------------------------------------------------------------------------
(* The analyzers applied to one file: inputs *)

LineFunctionAlone == <<"function", " ", "foo", "(", ")">>
LineMethod        == <<"foo", "(", ")", ":", " ", "void", " ", "{">>
LineMethodAlone   == <<"foo", "(", ")", ":", " ", "void">>
LineHook          == <<" ", " ", "ngOnInit", "(", ")">>
LineOpen          == <<"{">>
LineOpenClose     == <<" ", " ", "{", " ", "}">>
LineCloseTwo      == <<"}", "}">>
LineElse          == <<"}", " ", "else", " ", "{">>
DocOpen           == <<"/", "*", "*">>
DocStar           == <<" ", "*", " ", "doc">>
DocText           == <<" ", " ", "doc">>
DocEnd            == <<" ", "*", "/">>
DocOneLine        == <<"/", "*", "*", " ", "doc", " ", "*", "/">>
LineComment       == <<"/", "/", " ", "doc">>
LineDecorator     == <<"@", "Injectable", "(", ")">>
LineModifier      == <<" ", " ", "private">>

\* Lines above a construct, declarations, lines below a declaration.
DocLines  == {DocOpen, DocStar, DocText, DocEnd, DocOneLine, LineComment, LineEmpty}
DeclLines == {LineFunction, LineFunctionAlone, LineMethod, LineMethodAlone, LineHook}
BodyLines == {LineOpen, LineClose, LineOpenClose, LineCloseTwo, LineElse, LineLog}

LineStatement == <<" ", " ", "a", ";">>

\* A file holding one method with more code lines than LongMethodThreshold.
LongFile ==
    Join(<<LineMethod>> \o [k \in 1..(LongMethodThreshold + 1) |-> LineStatement]
         \o <<LineClose>>) \o <<NL>>

\* The same method without the line of its closing brace.
UnterminatedFile ==
    Join(<<LineMethod>> \o [k \in 1..(LongMethodThreshold + 1) |-> LineStatement])
        \o <<NL>>

\* Files with a construct under up to MaxDocLines lines of comments.
DocInputs ==
    {Join(doc \o <<decl, LineClose>>) :
        doc \in UNION {[1..n -> DocLines] : n \in 0..MaxDocLines},
        decl \in {LineFunction, LineMethod}}

\* Files with a construct under a decorator or an access modifier on a line
\* of its own, and comments above that.
DecoratedInputs ==
    {Join(doc \o <<above, decl, LineClose>>) :
        doc \in UNION {[1..n -> DocLines] : n \in 0..(MaxDocLines - 1)},
        above \in {LineDecorator, LineModifier},
        decl \in {LineFunction, LineMethod}}

\* Files with a declaration and up to MaxBodyLines lines of braces and code.
BodyInputs ==
    {Join(<<decl>> \o body) :
        decl \in DeclLines,
        body \in UNION {[1..n -> BodyLines] : n \in 0..MaxBodyLines}}

\* Files with two declarations, one below the other, and lines of braces.
TwoDeclInputs ==
    {Join(<<first, second>> \o body) :
        first \in {LineMethod, LineHook},
        second \in {LineMethod, LineHook},
        body \in UNION {[1..n -> {LineOpen, LineClose}] : n \in 0..(MaxBodyLines - 1)}}

\* Lines that start like a declaration and hold what the exclusion rules of
\* is_method_declaration look for.
DeclStarts ==
    {<<"constructor", "(">>, <<"function", " ", "foo", "(">>,
     <<"async", " ", "foo", "(">>, <<"ngOnInit", "(">>}

ExcludedParts ==
    {<<"a", " ", "=", ">", " ", "a">>, <<"a", " ", "=", " ", "a">>}
    \cup {<<w, ".", "a">> : w \in {"Math", "console", "document", "window",
                                   "localStorage", "sessionStorage"}}

ExcludedStarts ==
    {<<"return", " ">>, <<"const", " ">>, <<"let", " ">>, <<"var", " ">>,
     <<"this", ".">>}

ExcludedLines ==
    {start \o part \o <<")", " ", "{">> : start \in DeclStarts, part \in ExcludedParts}
    \cup {start \o LineMethod : start \in ExcludedStarts}

\* Files with such a line above a method.
ExcludedInputs ==
    {Join(<<line, LineMethod, LineClose>>) : line \in ExcludedLines}

\* A method of n statements with its brace on the declaration line, and one
\* with the brace on a line of its own.
MethodOf(n) ==
    Join(<<LineMethod>> \o [k \in 1..n |-> LineStatement] \o <<LineClose>>) \o <<NL>>

MethodBelowBraceOf(n) ==
    Join(<<LineMethodAlone, LineOpen>> \o [k \in 1..n |-> LineStatement]
         \o <<LineClose>>) \o <<NL>>

\* A method of n statements with comments, an empty line and a block in it.
MethodWithCommentsOf(n) ==
    Join(<<LineMethod, LineComment, LineEmpty, DocOpen, DocStar, DocEnd, LineOpen>>
         \o [k \in 1..n |-> LineStatement] \o <<LineClose, LineClose>>) \o <<NL>>

\* Files with a method whose number of code lines is at LongMethodThreshold,
\* one below and one above.
ThresholdInputs ==
    {MethodOf(n) : n \in (LongMethodThreshold - 2)..LongMethodThreshold}
    \cup {MethodBelowBraceOf(n) : n \in (LongMethodThreshold - 1)..(LongMethodThreshold + 1)}
    \cup {MethodWithCommentsOf(n) : n \in (LongMethodThreshold - 2)..LongMethodThreshold}

\* Texts the multi-line pass of the remover is followed through line by line.
MultilineInputs ==
    CallLineInputs \cup ParenStringInputs
    \cup {Join(ls) : ls \in UNION {[1..n -> {LineSplice, LineEndCall, LineFunction}] :
                                      n \in 1..3}}

\* Files for analyze_file_length: a comment that opens and closes on its
\* line above other lines, and a documentation block with an empty line in it.
CommentOneLine == <<"/", "*", " ", "doc", " ", "*", "/">>

LengthInputs ==
    {Join(<<first>> \o rest) \o <<NL>> :
        first \in {DocOneLine, CommentOneLine},
        rest \in {<<LineFunction, LineClose>>, <<LineEmpty, LineFunction, LineClose>>,
                  <<LineComment, LineFunction, LineClose>>, <<>>}}
    \cup {Join(<<DocOpen, LineEmpty, DocEnd>>) \o <<NL>>,
          Join(<<DocOpen, DocStar, LineEmpty, DocEnd, LineFunction, LineClose>>) \o <<NL>>}

AnInit ==
    /\ tool \in {"jsdoc", "method", "length", "multiline"}
    /\ src \in (IF tool = "multiline" THEN MultilineInputs
                ELSE IF tool = "jsdoc"
                THEN DocInputs \cup DecoratedInputs \cup BodyInputs
                         \cup ExcludedInputs \cup TwoDeclInputs \cup {SampleFile}
                ELSE IF tool = "method"
                THEN BodyInputs \cup TwoDeclInputs \cup ThresholdInputs
                         \cup {SampleFile, LongFile, UnterminatedFile}
                ELSE DocInputs \cup LengthInputs \cup {SampleFile})
    /\ pc = "scan"
    /\ line_i = 0
    /\ found = <<>>
    /\ examined = <<>>
    /\ lengths = <<>>
    /\ fileContent = <<>>
    /\ backup_dir = FALSE
    /\ backups = <<>>
    /\ writes = 0
    /\ results = <<>>
    /\ SuiteIdle

\* One iteration of the while loop of analyze_jsdoc_coverage.
JsdocStep ==
    /\ tool = "jsdoc" /\ pc = "scan"
    /\ line_i < Len(Split(src))
    /\ LET a == JsdocAt(Split(src), line_i, ThePath)
       IN  /\ line_i' = a.next
           /\ found' = found \o MissingOf(a.infos)
           /\ examined' = examined \o a.infos
    /\ UNCHANGED <<tool, src, pc, lengths, rmVars, files, ctlVars, runVars>>

\* The end of the while loop of analyze_jsdoc_coverage: return missing_jsdoc.
JsdocReturn ==
    /\ tool = "jsdoc" /\ pc = "scan"
    /\ line_i >= Len(Split(src))
    /\ pc' = "done"
    /\ UNCHANGED <<tool, src, line_i, found, examined, lengths, rmVars, files, ctlVars, runVars>>

\* One iteration of the while loop of analyze_method_length.  examined keeps
\* the start line with what analyze_method_from_line returned.
MethodStep ==
    /\ tool = "method" /\ pc = "scan"
    /\ line_i < Len(Split(src))
    /\ LET a == MethodAt(Split(src), line_i, ThePath)
       IN  /\ line_i' = a.next
           /\ found' = found \o LongOf(a.infos)
           /\ examined' = examined \o
                   [k \in 1..Len(a.infos) |-> [start |-> line_i, info |-> a.infos[k]]]
    /\ UNCHANGED <<tool, src, pc, lengths, rmVars, files, ctlVars, runVars>>

\* The end of the while loop of analyze_method_length: return long_methods.
MethodReturn ==
    /\ tool = "method" /\ pc = "scan"
    /\ line_i >= Len(Split(src))
    /\ pc' = "done"
    /\ UNCHANGED <<tool, src, line_i, found, examined, lengths, rmVars, files, ctlVars, runVars>>

\* analyze_file_length on the file.
FileLength ==
    /\ tool = "length" /\ pc = "scan"
    /\ lengths' = <<analyze_file_length(ThePath, src)>>
    /\ pc' = "done"
    /\ UNCHANGED <<tool, src, line_i, found, examined, rmVars, files, ctlVars, runVars>>

\* The body of the outer while loop of remove_multiline_console_logs at
\* index i: the index the loop goes on with and the lines it appends to
\* result_lines.
MultilineAt(lines, i) ==
    IF LineStartsLog(LineAt(lines, i))
    THEN LET j == BalancedAt(lines, i + 1, 0)
         IN  IF j # 0 THEN [next |-> j, kept |-> <<>>]
             ELSE [next |-> i + 1, kept |-> <<LineAt(lines, i)>>]
    ELSE [next |-> i + 1, kept |-> <<LineAt(lines, i)>>]

\* One iteration of the outer while loop of remove_multiline_console_logs.
\* examined keeps result_lines, found the first and the last index of the
\* lines skipped.
MultilineStep ==
    /\ tool = "multiline" /\ pc = "scan"
    /\ line_i < Len(Split(src))
    /\ LET a == MultilineAt(Split(src), line_i)
       IN  /\ line_i' = a.next
           /\ examined' = examined \o a.kept
           /\ found' = IF a.kept = <<>>
                       THEN Append(found, [first |-> line_i, last |-> a.next - 1])
                       ELSE found
    /\ UNCHANGED <<tool, src, pc, lengths, rmVars, files, ctlVars, runVars>>

\* The end of the outer while loop: return '\n'.join(result_lines).
MultilineReturn ==
    /\ tool = "multiline" /\ pc = "scan"
    /\ line_i >= Len(Split(src))
    /\ pc' = "done"
    /\ UNCHANGED <<tool, src, line_i, found, examined, lengths, rmVars, files, ctlVars, runVars>>

AnNext ==
    \/ JsdocStep \/ JsdocReturn \/ MethodStep \/ MethodReturn \/ FileLength
    \/ MultilineStep \/ MultilineReturn

SpecAnalyze == AnInit /\ [][AnNext]_vars

-----------------------------------------------------------------------------
(* main_analyzer.py: the menu and the confirmation *)

\* get_analyzer_info: the script of each menu key, in the order of the dict.
AnalyzerKeys == <<"1", "2", "3", "4">>

get_analyzer_info ==
    [k \in {"1", "2", "3", "4"} |->
        CASE k = "1" -> [name |-> "File Length Analyzer",
                         script |-> "analyze_file_length.py"]
          [] k = "2" -> [name |-> "JSDoc Coverage Analyzer",
                         script |-> "analyze_jsdoc_coverage.py"]
          [] k = "3" -> [name |-> "Method Length Analyzer",
                         script |-> "analyze_method_length_simple.py"]
          [] k = "4" -> [name |-> "Console.log Remover",
                         script |-> "remove_console_logs.py"]]

\* A variant of SortedUnique that keeps the choices as they were typed.
SortedUnique_AsTyped(choices) == [j \in 1..Len(choices) |-> choices[j][1]]

\* sorted(list(set(choices))) for choices that are all menu keys.
SortedUnique(choices) ==
    SelectSeq(AnalyzerKeys, LAMBDA k : \E j \in 1..Len(choices) : choices[j] = <<k>>)

\* One pass of the loop of get_user_choice on a line of input: the choice it
\* returns, or valid = FALSE when it prints an error and asks again.
get_user_choice(line) ==
    LET stripped == Strip(line)
        parts == SplitOn(stripped, 1, ",")
        choices == [k \in 1..Len(parts) |-> Strip(parts[k])]
    IN  IF \E k \in {"0", "1", "2", "3", "4", "5"} : stripped = <<k>>
        THEN [valid |-> TRUE, choice |-> stripped]
        ELSE IF /\ Contains(stripped, <<",">>)
                /\ \A k \in 1..Len(choices) :
                       \E v \in {"1", "2", "3", "4"} : choices[k] = <<v>>
        THEN [valid |-> TRUE,
              choice |-> JoinWith([k \in 1..Len(SortedUnique(choices)) |->
                                      <<SortedUnique(choices)[k]>>], ",")]
        ELSE [valid |-> FALSE, choice |-> <<>>]

\* The branch of main() for a choice other than '0': the keys of the analyzers
\* it runs after the confirmation, in the order it runs them.
SelectionOf(c) ==
    IF c = <<"5">> THEN AnalyzerKeys
    ELSE IF Contains(c, <<",">>)
    THEN LET parts == SplitOn(c, 1, ",")
         IN  [k \in 1..Len(parts) |-> parts[k][1]]
    ELSE <<c[1]>>

\* One pass of the loop of confirm_action on a line of input: "True", "False",
\* or "again" when it asks again.
confirm_action(line) ==
    LET response == Lower(Strip(line))
    IN  IF \E w \in {"j", "ja", "y", "yes"} : response = <<w>> THEN "True"
        ELSE IF \E w \in {"n", "nein", "no"} : response = <<w>> THEN "False"
        ELSE "again"

-----------------------------------------------------------------------------
(* remove_console_logs.py: the prompts *)

\* A variant of ProceedAccepted that takes every answer the other prompts
\* take for a yes.
ProceedAccepted_AsConfirm(line) ==
    \E w \in {"y", "yes", "j", "ja"} : Lower(Strip(line)) = <<w>>

\* 'response = input(...).strip().lower(); if response in ['y', 'yes']'
ProceedAccepted(line) ==
    \E w \in {"y", "yes"} : Lower(Strip(line)) = <<w>>

\* One pass of the loop of ask_for_backup on a line of input.
ask_for_backup(line) ==
    LET response == Lower(Strip(line))
    IN  IF \E w \in {"y", "yes", "j", "ja"} : response = <<w>> THEN "True"
        ELSE IF \E w \in {"n", "no", "nein"} : response = <<w>> THEN "False"
        ELSE "again"

-----------------------------------------------------------------------------
(* The scanners: enumeration and exclusion *)

\* The directory of the scripts.
ScriptDir == <<"/", "srv">>

\* excluded_dirs of each scanner.
ExcludedDirs_file_length ==
    {<<"node_modules">>, <<".", "git">>, <<"dist">>, <<"build">>,
     <<".", "angular">>, <<"coverage">>, <<".", "vscode">>, <<".", "idea">>}
ExcludedDirs_jsdoc ==
    {<<"node_modules">>, <<".", "git">>, <<"dist">>, <<"build">>,
     <<".", "angular">>, <<"coverage">>, <<".", "vscode">>, <<".", "idea">>}
ExcludedDirs_method_length ==
    {<<"node_modules">>, <<".", "git">>, <<"dist">>, <<"build">>,
     <<".", "angular">>, <<"coverage">>}
ExcludedDirs_remover ==
    {<<"node_modules">>, <<".", "git">>, <<"dist">>, <<"build">>,
     <<".", "angular">>, <<"coverage">>, <<".", "vscode">>, <<".", "idea">>,
     <<"backups">>}

\* The extensions of the glob patterns of each scanner, in the order the
\* matches are concatenated.
Patterns_file_length   == <<"html", "css", "scss", "sass", "js", "ts">>
Patterns_jsdoc         == <<"ts", "js">>
Patterns_method_length == <<"ts", "js">>
Patterns_remover       == <<"js", "ts">>

\* A variant of ShouldExclude that excludes nothing.
ShouldExclude_Nothing(file_path, excluded_dirs) == FALSE

\* 'any(excluded_dir in file_path for excluded_dir in excluded_dirs)'
ShouldExclude(file_path, excluded_dirs) ==
    \E excluded_dir \in excluded_dirs : Contains(file_path, excluded_dir)

\* The orders in which the members of a set can be listed.
Orders(S) ==
    {f \in [1..Cardinality(S) -> S] :
        \A a, b \in 1..Cardinality(S) : a # b => f[a] # f[b]}

\* glob.glob(script_dir/**/*.ext, recursive=True): the files of the tree with
\* the extension, in an order the file system chooses.
Glob(fs, ext) == Orders({f \in DOMAIN fs : EndsWith(f, <<".", ext>>)})

\* The values all_files can take: the matches of each pattern, one pattern
\* after the other.
RECURSIVE AllFiles(_, _)
AllFiles(fs, patterns) ==
    IF patterns = <<>> THEN {<<>>}
    ELSE {a \o b : a \in Glob(fs, Head(patterns)), b \in AllFiles(fs, Tail(patterns))}

\* The filter loop: the files of all_files outside the excluded directories.
FilterFiles(all_files, excluded_dirs) ==
    SelectSeq(all_files, LAMBDA f : ~ShouldExclude(f, excluded_dirs))

\* list.sort(key=..., reverse=True) of s, keys[k] being the key of s[k]: by
\* descending key, equal keys in the order they had.
RECURSIVE SortDesc(_, _)
SortDesc(s, keys) ==
    IF s = <<>> THEN <<>>
    ELSE LET top == CHOOSE k \in 1..Len(s) :
                        /\ \A j \in 1..Len(s) : keys[j] <= keys[k]
                        /\ \A j \in 1..(k - 1) : keys[j] < keys[k]
             Without(q) == [j \in 1..(Len(q) - 1) |-> IF j < top THEN q[j] ELSE q[j + 1]]
         IN  <<s[top]>> \o SortDesc(Without(s), Without(keys))

-----------------------------------------------------------------------------
(* The suite: the controller, the four scripts and the files they scan *)

FileLengthScript   == "analyze_file_length.py"
JsdocScript        == "analyze_jsdoc_coverage.py"
MethodLengthScript == "analyze_method_length_simple.py"
RemoverScript      == "remove_console_logs.py"
Scripts == {FileLengthScript, JsdocScript, MethodLengthScript, RemoverScript}

\* Files with more lines than this are reported by the file-length scanner.
LargeFileThreshold == 400

PathApp  == ScriptDir \o <<"/", "app", "/", "t", ".", "js">>
PathLong == ScriptDir \o <<"/", "app", "/", "long", ".", "ts">>
PathLib  == ScriptDir \o <<"/", "node_modules", "/", "lib", ".", "js">>
SourcePaths == {PathApp, PathLong, PathLib}

\* The contents the file under node_modules is given.
LibContents == {SampleFile, LongFile}

\* The lines typed at the prompts, and the end of the input (EOFError).
EndOfInput    == <<"^D">>
\* Ctrl-C typed at a prompt (KeyboardInterrupt), and a line of bytes that
\* are not valid in the encoding of the input (UnicodeDecodeError).
Interrupt     == <<"^C">>
Undecodable   == <<"\\xff">>
MenuInputs    == {<<"0">>, <<"2">>, <<" ", "4">>, <<"5">>, <<"4", ",", " ", "1">>,
                  <<"3", ",", "3">>, <<"1", ",", "5">>, <<"7">>, <<>>,
                  <<"2", ",", "1", ",", "2">>, <<"0", ",", "1">>, <<"1", ",">>}
ConfirmInputs == {<<"J">>, <<"yes">>, <<"n">>, <<>>}
ProceedInputs == {<<" ", "YES">>, <<"j">>, <<"n">>, <<>>}
BackupInputs  == {<<"y">>, <<"n">>, <<"x">>}

\* The faults of the file system while an analyzer processes one file.
AnalyzerFaults == {"none", "read"}

\* The exception input() raises for what is typed, "None" for a line it
\* returns.
InputRaises(line) ==
    IF line = EndOfInput THEN "EOFError"
    ELSE IF line = Interrupt THEN "KeyboardInterrupt"
    ELSE IF line = Undecodable THEN "UnicodeDecodeError"
    ELSE "None"

\* What can be typed at a prompt of the controller besides the lines.
Exceptional == {EndOfInput, Interrupt, Undecodable}

\* Where a script starts: the remover at its proceed prompt, the analyzers
\* at their scan.
StartOf(s) == IF s = RemoverScript THEN "proceed" ELSE "scan"

\* os.path.relpath(file_path, script_dir) for a file under script_dir.
RelPath(file_path) == SubSeq(file_path, Len(ScriptDir) + 2, Len(file_path))

\* create_backup_folder: script_dir/backups/console_log_backup_<timestamp>,
\* the round standing for the time.
BackupFolder(n) ==
    ScriptDir \o <<"/", "backups", "/", "console_log_backup_", ToString(n)>>

\* backup_file: the path of the copy of file_path.
BackupPath(file_path, n) == BackupFolder(n) \o <<"/">> \o RelPath(file_path)

SuiteInit ==
    /\ files \in {[f \in SourcePaths |->
                      IF f = PathLib THEN c
                      ELSE IF f = PathApp THEN SampleFile ELSE LongFile] :
                  c \in LibContents}
    /\ \/ ctl = "menu" /\ script = "none" /\ spc = "idle"
       \/ ctl = "off" /\ script \in Scripts /\ spc = StartOf(script)
    /\ choice = <<>> /\ confirmed = FALSE /\ selection = <<>>
    /\ outcomes = <<>> /\ rounds = 0 /\ raised = "None"
    /\ proceed = Unasked /\ answer = Unasked
    /\ todo = <<>> /\ analysed = {} /\ faulted = {} /\ report = NoReport
    /\ fileContent = <<>> /\ backup_dir = FALSE /\ backups = <<>>
    /\ writes = 0 /\ results = <<>>
    /\ AnIdle

\* main(): get_user_choice on the next line of input.  An invalid line is
\* asked again; '0' ends the loop; KeyboardInterrupt and EOFError are caught
\* in get_user_choice, which calls sys.exit(0); any other exception leaves
\* the while loop of main() for its 'except Exception', which prints the
\* message and ends main().
GetUserChoice ==
    /\ ctl = "menu" /\ rounds < MaxRounds
    /\ \E line \in MenuInputs \cup Exceptional :
        IF InputRaises(line) \in {"EOFError", "KeyboardInterrupt"}
        THEN ctl' = "exit" /\ raised' = "SystemExit" /\ UNCHANGED choice
        ELSE IF InputRaises(line) # "None"
        THEN ctl' = "exit" /\ raised' = InputRaises(line) /\ UNCHANGED choice
        ELSE LET r == get_user_choice(line)
             IN  IF ~r.valid THEN UNCHANGED <<ctl, choice, raised>>
                 ELSE /\ choice' = r.choice
                      /\ ctl' = IF r.choice = <<"0">> THEN "exit" ELSE "confirm"
                      /\ UNCHANGED raised
    /\ UNCHANGED <<confirmed, selection, outcomes, rounds, rmVars, anVars, files,
                   runVars>>

\* main(): confirm_action on the next line of input.  KeyboardInterrupt and
\* EOFError are caught in confirm_action and count as a no; any other
\* exception ends main() through its 'except Exception'.
ConfirmAction ==
    /\ ctl = "confirm"
    /\ \E line \in ConfirmInputs \cup Exceptional :
        LET r == IF InputRaises(line) \in {"EOFError", "KeyboardInterrupt"} THEN "False"
                 ELSE IF InputRaises(line) # "None" THEN "raise"
                 ELSE confirm_action(line)
        IN  IF r = "True"
            THEN /\ ctl' = "run" /\ confirmed' = TRUE
                 /\ selection' = SelectionOf(choice) /\ outcomes' = <<>>
                 /\ UNCHANGED raised
            ELSE IF r = "False"
            THEN /\ ctl' = "pause" /\ confirmed' = FALSE
                 /\ UNCHANGED <<selection, outcomes, raised>>
            ELSE IF r = "raise"
            THEN /\ ctl' = "exit" /\ raised' = InputRaises(line)
                 /\ UNCHANGED <<confirmed, selection, outcomes>>
            ELSE UNCHANGED <<ctl, confirmed, selection, outcomes, raised>>
    /\ UNCHANGED <<choice, rounds, rmVars, anVars, files, runVars>>

\* A variant of run_analyzer that takes every process that ran for a success.
run_analyzer_RanIsSuccess(how) == how \in {"exit0", "exit1"}

\* run_analyzer: its value, by how the call went: the script is not found
\* ("missing"), subprocess.run raises an exception ("raised"), or the process
\* runs and exits with code 0 ("exit0") or another ("exit1").  False for a
\* missing script and from the 'except Exception', 'result.returncode == 0'
\* otherwise.
run_analyzer(how) ==
    IF how = "missing" THEN FALSE
    ELSE IF how = "raised" THEN FALSE
    ELSE how = "exit0"

\* The loops of run_all_analyzers and run_multiple_analyzers after a call of
\* run_analyzer: the result is appended and the next analyzer is taken.
\* After the last analyzer main() waits for Enter.
Appended(s, how) ==
    /\ outcomes' = Append(outcomes, [script |-> s, success |-> run_analyzer(how)])
    /\ selection' = Tail(selection)
    /\ ctl' = IF Tail(selection) = <<>> THEN "pause" ELSE "run"

\* run_analyzer on the next selected analyzer: the script is started, or it
\* is not found or subprocess.run raises, and run_analyzer returns False
\* with nothing run.
RunAnalyzer ==
    /\ ctl = "run" /\ script = "none" /\ selection # <<>>
    /\ \E start \in {"ran", "missing", "raised"} :
        IF start = "ran"
        THEN /\ script' = get_analyzer_info[Head(selection)].script
             /\ spc' = StartOf(script')
             /\ UNCHANGED <<ctl, selection, outcomes>>
        ELSE /\ Appended(get_analyzer_info[Head(selection)].script, start)
             /\ UNCHANGED <<script, spc>>
    /\ UNCHANGED <<proceed, answer, todo, analysed, faulted, report, choice, confirmed,
                   rounds, raised, rmVars, anVars, files>>

\* run_analyzer: subprocess.run returns with the exit code of the process;
\* what the process held is gone.  The code is 0 for a script that came to
\* its end, and not 0 for one that ended by an exception or was killed.
\* After a Ctrl-C typed at a prompt of the script it does not return
\* (RunInterrupted).
AnalyzerReturns ==
    /\ ctl = "run" /\ script # "none" /\ spc \in {"exited", "crashed", "killed"}
    /\ answer # Interrupt /\ proceed # Interrupt
    /\ Appended(script, IF spc = "exited" THEN "exit0" ELSE "exit1")
    /\ script' = "none" /\ spc' = "idle" /\ proceed' = Unasked /\ answer' = Unasked /\ todo' = <<>>
    /\ analysed' = {} /\ faulted' = {} /\ report' = NoReport
    /\ backup_dir' = FALSE /\ backups' = <<>> /\ writes' = 0 /\ results' = <<>>
    /\ UNCHANGED <<choice, confirmed, rounds, raised, fileContent, anVars, files>>

\* main(): 'input("... Enter ...")' at the end of a round.  An exception of
\* input() leaves the while loop: KeyboardInterrupt for the handler of main()
\* that prints the goodbye, any other (EOFError too) for 'except Exception',
\* which prints the message; main() ends after either.
Continue ==
    /\ ctl = "pause"
    /\ \E line \in {<<>>} \cup Exceptional :
        IF InputRaises(line) # "None"
        THEN /\ ctl' = "exit" /\ raised' = InputRaises(line)
             /\ UNCHANGED <<rounds, choice, confirmed>>
        ELSE /\ ctl' = "menu" /\ rounds' = rounds + 1
             /\ choice' = <<>> /\ confirmed' = FALSE /\ UNCHANGED raised
    /\ UNCHANGED <<selection, outcomes, rmVars, anVars, files, runVars>>

\* The counters of scan_and_remove_console_logs before its loop.
RemoverCounters(n) ==
    [n_files |-> n, total_original_logs |-> 0, total_removed_logs |-> 0,
     total_remaining_logs |-> 0, files_modified |-> 0, files_with_errors |-> 0,
     files_backed_up |-> 0, files_with_logs |-> <<>>]

\* The body of the loop of scan_and_remove_console_logs after the call: the
\* counters with the result of one file added.  A result with console.logs
\* is appended to files_with_logs by each of the two 'if' statements.
RemoverTally(t, result) ==
    IF result.error # "None"
    THEN [t EXCEPT !.files_with_errors = @ + 1]
    ELSE LET t1 == IF result.backed_up
                   THEN [t EXCEPT !.files_backed_up = @ + 1] ELSE t
             t2 == IF result.original_logs > 0
                   THEN [t1 EXCEPT
                            !.files_with_logs = Append(@, result),
                            !.total_original_logs = @ + result.original_logs,
                            !.total_removed_logs = @ + result.removed_logs,
                            !.total_remaining_logs = @ + result.remaining_logs,
                            !.files_modified = IF result.modified THEN @ + 1 ELSE @]
                   ELSE t1
         IN  IF result.original_logs > 0
             THEN [t2 EXCEPT !.files_with_logs = Append(@, result)]
             ELSE t2

\* The proceed prompt of the remover script.  The end of the input raises
\* EOFError and Ctrl-C KeyboardInterrupt, which nothing catches.
ProceedPrompt ==
    /\ script = RemoverScript /\ spc = "proceed"
    /\ \E line \in ProceedInputs \cup {EndOfInput, Interrupt} :
        /\ proceed' = line
        /\ spc' = IF InputRaises(line) # "None" THEN "crashed"
                  ELSE IF ProceedAccepted(line) THEN "backup" ELSE "exited"
    /\ UNCHANGED <<script, answer, todo, analysed, faulted, report, ctlVars, rmVars, anVars,
                   files>>

\* What ask_for_backup returns on an exception of input(), taken as the call
\* returning True.
AskedForBackup_RaisedIsYes(line) ==
    IF InputRaises(line) \in {"EOFError", "KeyboardInterrupt"} THEN "True"
    ELSE ask_for_backup(line)

\* ask_for_backup on what is typed at its prompt: 'except (KeyboardInterrupt,
\* EOFError): return False', any line input() returns goes through the loop.
AskedForBackup(line) ==
    IF InputRaises(line) \in {"EOFError", "KeyboardInterrupt"} THEN "False"
    ELSE ask_for_backup(line)

\* scan_and_remove_console_logs up to its loop: ask_for_backup on the next
\* line of input, create_backup_folder (which may fail), the globs and the
\* filter.
AskForBackup ==
    /\ script = RemoverScript /\ spc = "backup"
    /\ \E line \in BackupInputs \cup {EndOfInput, Interrupt}, made \in BOOLEAN,
          all_files \in AllFiles(files, Patterns_remover) :
        LET create_backup == AskedForBackup(line)
        IN  /\ answer' = line
            /\ IF create_backup = "again"
               THEN UNCHANGED <<backup_dir, todo, report, spc>>
               ELSE /\ backup_dir' = (create_backup = "True" /\ made)
                    /\ todo' = FilterFiles(all_files, ExcludedDirs_remover)
                    /\ report' = RemoverCounters(Len(todo'))
                    /\ spc' = "loop"
    /\ UNCHANGED <<script, proceed, analysed, faulted, ctlVars, fileContent, backups,
                   writes, results, anVars, files>>

\* The tree after a call of remove_console_logs_from_file on file_path with
\* the effects r: the file holds r.after, and the copy backup_file left,
\* whole or partial, is in the backup directory.
TreeAfter(fs, file_path, r, copy) ==
    [f \in DOMAIN fs \cup (IF r.copy_left THEN {copy} ELSE {}) |->
        IF r.copy_left /\ f = copy THEN r.copy
        ELSE IF f = file_path THEN r.after
        ELSE fs[f]]

\* The remover stopped inside a call of remove_console_logs_from_file on
\* Head(todo) that goes as r: the tree left, whether backup_file had made
\* its copy and returned, and whether the file had been opened for writing.
\* The call is stopped after open(file_path, 'w') (opened), or before it
\* with the file as it was, after backup_file returned (returned) or inside
\* backup_file, where the copy begun or made is in the tree and not yet
\* counted.
StoppedAt(r, opened, returned) ==
    [tree |-> TreeAfter(files, Head(todo),
                        IF opened THEN r ELSE [r EXCEPT !.after = files[Head(todo)]],
                        BackupPath(Head(todo), rounds)),
     copied |-> r.copied /\ returned,
     opened_w |-> r.opened_w /\ opened]

\* What a script has done when it is stopped where it is.  The remover
\* stopped inside a call of remove_console_logs_from_file leaves what the
\* call had done by then: nothing, the copy begun or made with the file not
\* yet opened, the file truncated by open(file_path, 'w') with the start of
\* the new content, or the file rewritten.  The analyzers write nothing to
\* the files scanned.
WhenStopped ==
    {[tree |-> files, copied |-> FALSE, opened_w |-> FALSE]}
    \cup IF script = RemoverScript /\ spc = "loop" /\ todo # <<>>
         THEN {StoppedAt(remove_console_logs_from_file(Head(todo), files[Head(todo)],
                                                       backup_dir, fault),
                         at.opened, at.returned) :
               fault \in RemoverFaults,
               at \in {[opened |-> TRUE, returned |-> TRUE],
                       [opened |-> FALSE, returned |-> TRUE],
                       [opened |-> FALSE, returned |-> FALSE]}}
         ELSE {}

\* run_analyzer when Ctrl-C is typed while the script runs, at a prompt of
\* the script or at any other moment: the terminal sends it to the script
\* and to the controller, where subprocess.run raises KeyboardInterrupt.
\* subprocess.run waits a quarter of a second for the script, which has
\* ended by itself or goes on as the remover does after its backup prompt,
\* and kills it wherever it is by then; 'except Exception' does not catch
\* KeyboardInterrupt, no result is appended, and main() ends through its
\* 'except KeyboardInterrupt'.
RunInterrupted ==
    /\ ctl = "run" /\ script # "none"
    /\ \E w \in WhenStopped : files' = w.tree
    /\ ctl' = "exit" /\ raised' = "KeyboardInterrupt"
    /\ script' = "none" /\ spc' = "idle" /\ proceed' = Unasked /\ answer' = Unasked /\ todo' = <<>>
    /\ analysed' = {} /\ faulted' = {} /\ report' = NoReport
    /\ backup_dir' = FALSE /\ backups' = <<>> /\ writes' = 0 /\ results' = <<>>
    /\ UNCHANGED <<choice, confirmed, selection, outcomes, rounds, fileContent, anVars>>

\* A script the controller runs is killed from outside (a signal other than
\* the Ctrl-C of the terminal) while it is past its prompts: the process is
\* gone with what it held, the tree is as the script left it, and
\* subprocess.run will return an exit code that is not 0.
ScriptKilled ==
    /\ ctl = "run" /\ script # "none" /\ spc \in {"scan", "loop"}
    /\ \E w \in WhenStopped : files' = w.tree
    /\ spc' = "killed"
    /\ proceed' = Unasked /\ answer' = Unasked /\ todo' = <<>>
    /\ analysed' = {} /\ faulted' = {} /\ report' = NoReport
    /\ backup_dir' = FALSE /\ backups' = <<>> /\ writes' = 0 /\ results' = <<>>
    /\ UNCHANGED <<script, ctlVars, fileContent, anVars>>

\* Ctrl-C typed while a script started on its own is past its prompts:
\* KeyboardInterrupt is raised where the script is, no 'except Exception'
\* catches it, and the script ends with the traceback.  A call of
\* remove_console_logs_from_file it stops has made its copy or opened its
\* file, or not; its result is not returned, and nothing is counted for it.
ScriptInterrupted ==
    /\ ctl = "off" /\ script # "none" /\ spc \in {"scan", "loop"}
    /\ \E w \in WhenStopped :
        /\ files' = w.tree
        /\ backups' = IF w.copied THEN Append(backups, files[Head(todo)]) ELSE backups
        /\ writes' = IF w.opened_w THEN writes + 1 ELSE writes
    /\ spc' = "interrupted"
    /\ UNCHANGED <<script, proceed, answer, todo, analysed, faulted, report, ctlVars,
                   fileContent, backup_dir, results, anVars>>

\* One iteration of the loop of scan_and_remove_console_logs.
RemoveStep ==
    /\ script = RemoverScript /\ spc = "loop" /\ todo # <<>>
    /\ \E fault \in RemoverFaults :
        LET file_path == Head(todo)
            r == remove_console_logs_from_file(file_path, files[file_path],
                                               backup_dir, fault)
            copy == BackupPath(file_path, rounds)
        IN  /\ files' = TreeAfter(files, file_path, r, copy)
            /\ backups' = IF r.copied THEN Append(backups, files[file_path])
                          ELSE backups
            /\ writes' = IF r.opened_w THEN writes + 1 ELSE writes
            /\ results' = Append(results, [call |-> r, before |-> files[file_path]])
            /\ report' = RemoverTally(report, r.ret)
            /\ analysed' = analysed \cup {file_path}
            /\ faulted' = IF r.ret.error # "None" THEN faulted \cup {file_path}
                          ELSE faulted
            /\ todo' = Tail(todo)
    /\ UNCHANGED <<script, spc, proceed, answer, ctlVars, fileContent, backup_dir, anVars>>

\* scan_and_remove_console_logs after its loop: files_with_logs sorted, the
\* summary and the report; the script ends.
RemoveReport ==
    /\ script = RemoverScript /\ spc = "loop" /\ todo = <<>>
    /\ LET fwl == report.files_with_logs
       IN  report' = [report EXCEPT !.files_with_logs =
                        SortDesc(fwl, [k \in 1..Len(fwl) |-> fwl[k].original_logs])]
    /\ spc' = "exited"
    /\ UNCHANGED <<script, proceed, answer, todo, analysed, faulted, ctlVars, rmVars, anVars, files>>

\* What an analyzer script has collected before its loop.
AnalyzerCounters(n) == [n_files |-> n, files_with |-> 0, entries |-> <<>>]

\* scan_all_files up to its loop: the globs and the filter.
FileLengthScan ==
    /\ script = FileLengthScript /\ spc = "scan"
    /\ \E all_files \in AllFiles(files, Patterns_file_length) :
        /\ todo' = FilterFiles(all_files, ExcludedDirs_file_length)
        /\ report' = AnalyzerCounters(Len(todo'))
    /\ spc' = "loop"
    /\ UNCHANGED <<script, proceed, answer, analysed, faulted, ctlVars, rmVars, anVars, files>>

\* One iteration of the loop of scan_all_files: a file with more than 400
\* lines is collected; analyze_file_length gives None for a file it cannot
\* read.
FileLengthStep ==
    /\ script = FileLengthScript /\ spc = "loop" /\ todo # <<>>
    /\ \E fault \in AnalyzerFaults :
        LET file_path == Head(todo)
            file_info == analyze_file_length(file_path, files[file_path])
        IN  /\ faulted' = IF fault = "none" THEN faulted ELSE faulted \cup {file_path}
            /\ report' = IF fault = "none" /\ file_info.total_lines > LargeFileThreshold
                      THEN [report EXCEPT !.files_with = @ + 1,
                                          !.entries = Append(@, file_info)]
                      ELSE report
    /\ analysed' = analysed \cup {Head(todo)}
    /\ todo' = Tail(todo)
    /\ UNCHANGED <<script, spc, proceed, answer, ctlVars, rmVars, anVars, files>>

\* scan_all_files after its loop: the large files sorted by total lines,
\* the report; the script ends.
FileLengthReport ==
    /\ script = FileLengthScript /\ spc = "loop" /\ todo = <<>>
    /\ LET e == report.entries
       IN  report' = [report EXCEPT !.entries =
                        SortDesc(e, [k \in 1..Len(e) |-> e[k].total_lines])]
    /\ spc' = "exited"
    /\ UNCHANGED <<script, proceed, answer, todo, analysed, faulted, ctlVars, rmVars, anVars, files>>

\* scan_all_files_for_jsdoc up to its loop.
JsdocScan ==
    /\ script = JsdocScript /\ spc = "scan"
    /\ \E all_files \in AllFiles(files, Patterns_jsdoc) :
        /\ todo' = FilterFiles(all_files, ExcludedDirs_jsdoc)
        /\ report' = AnalyzerCounters(Len(todo'))
    /\ spc' = "loop"
    /\ UNCHANGED <<script, proceed, answer, analysed, faulted, ctlVars, rmVars, anVars, files>>

\* One iteration of the loop of scan_all_files_for_jsdoc.
JsdocFileStep ==
    /\ script = JsdocScript /\ spc = "loop" /\ todo # <<>>
    /\ \E fault \in AnalyzerFaults :
        LET file_path == Head(todo)
            missing_methods == analyze_jsdoc_coverage(file_path, files[file_path], fault)
        IN  /\ faulted' = IF fault = "none" THEN faulted ELSE faulted \cup {file_path}
            /\ report' = IF missing_methods # <<>>
                      THEN [report EXCEPT !.files_with = @ + 1,
                                          !.entries = @ \o missing_methods]
                      ELSE report
    /\ analysed' = analysed \cup {Head(todo)}
    /\ todo' = Tail(todo)
    /\ UNCHANGED <<script, spc, proceed, answer, ctlVars, rmVars, anVars, files>>

\* scan_all_files_for_jsdoc after its loop: the summaries and the report.
JsdocReport ==
    /\ script = JsdocScript /\ spc = "loop" /\ todo = <<>>
    /\ spc' = "exited"
    /\ UNCHANGED <<script, proceed, answer, todo, analysed, faulted, report, ctlVars, rmVars,
                   anVars, files>>

\* scan_all_ts_files up to its loop.
MethodLengthScan ==
    /\ script = MethodLengthScript /\ spc = "scan"
    /\ \E all_files \in AllFiles(files, Patterns_method_length) :
        /\ todo' = FilterFiles(all_files, ExcludedDirs_method_length)
        /\ report' = AnalyzerCounters(Len(todo'))
    /\ spc' = "loop"
    /\ UNCHANGED <<script, proceed, answer, analysed, faulted, ctlVars, rmVars, anVars, files>>

\* One iteration of the loop of scan_all_ts_files.
MethodLengthStep ==
    /\ script = MethodLengthScript /\ spc = "loop" /\ todo # <<>>
    /\ \E fault \in AnalyzerFaults :
        LET file_path == Head(todo)
            long_methods == analyze_method_length(file_path, files[file_path], fault)
        IN  /\ faulted' = IF fault = "none" THEN faulted ELSE faulted \cup {file_path}
            /\ report' = IF long_methods # <<>>
                      THEN [report EXCEPT !.files_with = @ + 1,
                                          !.entries = @ \o long_methods]
                      ELSE report
    /\ analysed' = analysed \cup {Head(todo)}
    /\ todo' = Tail(todo)
    /\ UNCHANGED <<script, spc, proceed, answer, ctlVars, rmVars, anVars, files>>

\* scan_all_ts_files after its loop: the long methods sorted by code lines,
\* the report; the script ends.
MethodLengthReport ==
    /\ script = MethodLengthScript /\ spc = "loop" /\ todo = <<>>
    /\ LET e == report.entries
       IN  report' = [report EXCEPT !.entries =
                        SortDesc(e, [k \in 1..Len(e) |-> e[k].code_lines])]
    /\ spc' = "exited"
    /\ UNCHANGED <<script, proceed, answer, todo, analysed, faulted, ctlVars, rmVars, anVars, files>>

Next ==
    \/ GetUserChoice \/ ConfirmAction \/ RunAnalyzer \/ AnalyzerReturns \/ RunInterrupted
    \/ Continue \/ ScriptKilled \/ ScriptInterrupted
    \/ ProceedPrompt \/ AskForBackup \/ RemoveStep \/ RemoveReport
    \/ FileLengthScan \/ FileLengthStep \/ FileLengthReport
    \/ JsdocScan \/ JsdocFileStep \/ JsdocReport
    \/ MethodLengthScan \/ MethodLengthStep \/ MethodLengthReport

Spec == SuiteInit /\ [][Next]_vars

-----------------------------------------------------------------------------
(* Claims about the remover applied to one file (SpecRemove) *)

\* C2, as claimed: a second application of remove_console_logs_from_file to
\* the output of a first one removes nothing and leaves the file content as
\* the first application left it.  The code does not satisfy it.
C2_Idempotent ==
    \A k \in 2..Len(results) :
        /\ results[k].call.ret.removed_logs = 0
        /\ results[k].call.after = results[k].before

\* The file the claim of C4 says the remover produces, 'function foo() {\n}\n',
\* and the file it produces, 'function foo() {\n\n}\n'.
SampleClaimed == Join(<<LineFunction, LineClose>>) \o <<NL>>
SampleRemoved == Join(<<LineFunction, LineEmpty, LineClose>>) \o <<NL>>

\* C4, amended: for the file 'function foo() {\n  console.log("x");\n}\n' the
\* remover rewrites the file to 'function foo() {\n\n}\n' (the line of the
\* call is left empty between the braces) and reports 1 removed.
C4_SampleRemoval ==
    \A k \in 1..Len(results) :
        results[k].before = SampleFile =>
            /\ results[k].call.after = SampleRemoved
            /\ results[k].call.opened_w
            /\ results[k].call.ret.removed_logs = 1

C4_Witness ==
    /\ Len(results) >= 1
    /\ results[1].before = SampleFile
    /\ fileContent = SampleRemoved

\* C4, as claimed: the file is rewritten to 'function foo() {\n}\n', no line
\* left between the braces, with 1 removed.
C4_AsClaimed ==
    \A k \in 1..Len(results) :
        results[k].before = SampleFile =>
            /\ results[k].call.after = SampleClaimed
            /\ results[k].call.ret.removed_logs = 1

\* The occurrences of console.log( in s that do not start their line: a
\* token other than a blank stands between the start of the line and them.
NestedCalls(s) ==
    {p \in 1..Len(s) :
        /\ ConsoleLogAt(s, p) # 0
        /\ SkipSpace(s, LastNewline(s, 1, p - 1) + 1) # p}

\* C8: every console.log call that does not start its line is still in the
\* output: the output holds at least as many calls as the input holds
\* nested ones.
C8_NestedKept ==
    \A k \in 1..Len(results) :
        Cardinality(NestedCalls(results[k].before))
            <= CountLogs(results[k].call.after)

\* C9: a call that read the file opens it for writing exactly when the
\* content it computed differs from the content it read, and the file keeps
\* its content otherwise; a file without any console.log( is neither written
\* nor backed up and its result says modified = False, removed_logs = 0.
C9_WriteOnlyIfChanged ==
    /\ writes = Cardinality({k \in 1..Len(results) :
                                results[k].call.after # results[k].before})
    /\ \A k \in 1..Len(results) :
        LET e == results[k]
        IN  /\ e.call.opened_w <=> (e.call.computed # e.before)
            /\ e.call.ret.modified <=> (e.call.after # e.before)
            /\ CountLogs(e.before) = 0 =>
                   /\ ~e.call.opened_w
                   /\ ~e.call.copied
                   /\ e.call.after = e.before
                   /\ e.call.ret.modified = FALSE
                   /\ e.call.ret.removed_logs = 0

\* A file with console.log calls none of which the remover takes out: it is
\* backed up, and not written.
C9_Witness ==
    /\ Len(results) >= 1
    /\ CountLogs(results[1].before) > 0
    /\ results[1].call.copied
    /\ ~results[1].call.opened_w
    /\ writes = 0

-----------------------------------------------------------------------------
(* Claims about the analyzers applied to one file (SpecAnalyze) *)

\* The braces of a line, in order.
Braces(line) == SelectSeq(line, LAMBDA t : t \in {"{", "}"})

\* Walking the braces bs from the k-th at nesting depth `depth`: the index of
\* the brace that returns the depth to 0, 0 when none does, -1 when a '}'
\* comes at depth 0.
RECURSIVE CloseIn(_, _, _)
CloseIn(bs, k, depth) ==
    IF k > Len(bs) THEN 0
    ELSE IF bs[k] = "{" THEN CloseIn(bs, k + 1, depth + 1)
    ELSE IF depth = 0 THEN -1
    ELSE IF depth = 1 THEN k
    ELSE CloseIn(bs, k + 1, depth - 1)

\* The index of the line holding the brace that closes the body of the
\* construct whose lines start at index j, brace by brace; -1 unless the body
\* is one balanced, properly nested group of pairs and its closing brace is
\* the last brace of its line.
RECURSIVE TrueClose(_, _, _)
TrueClose(lines, j, depth) ==
    IF j >= Len(lines) THEN -1
    ELSE LET bs == Braces(LineAt(lines, j))
             c == CloseIn(bs, 1, depth)
         IN  IF c = -1 THEN -1
             ELSE IF c > 0 THEN (IF c = Len(bs) THEN j ELSE -1)
             ELSE TrueClose(lines, j + 1,
                            depth + Count(bs, "{") - Count(bs, "}"))

\* The number of '{' on the lines from index a to index b.
RECURSIVE OpenBraces(_, _, _)
OpenBraces(lines, a, b) ==
    IF a > b THEN 0 ELSE Count(LineAt(lines, a), "{") + OpenBraces(lines, a + 1, b)

\* C1: for every construct the JSDoc analyzer or the method-length analyzer
\* examines whose body is N >= 1 balanced, properly nested brace pairs, however
\* the braces are laid out over the lines, the end line the boundary scan
\* reports is the line of the brace that closes the body (and the scan of the
\* method-length analyzer does find an end).
C1_EndAtClosingBrace ==
    /\ tool = "jsdoc" =>
        \A k \in 1..Len(examined) :
            LET tc == TrueClose(Split(src), examined[k].start_line - 1, 0)
            IN  tc >= 0 => examined[k].end_line = tc + 1
    /\ tool = "method" =>
        \A k \in 1..Len(examined) :
            LET tc == TrueClose(Split(src), examined[k].start, 0)
            IN  tc >= 0 => /\ examined[k].info.found
                           /\ examined[k].info.end_line = tc + 1

\* The JSDoc analyzer has examined a construct declared on a line without
\* braces, with two or more pairs below it closing two or more lines later.
C1_Witness ==
    /\ tool = "jsdoc" /\ pc = "done"
    /\ \E k \in 1..Len(examined) :
        LET s == examined[k].start_line - 1
            tc == TrueClose(Split(src), s, 0)
        IN  /\ tc >= s + 2
            /\ Braces(LineAt(Split(src), s)) = <<>>
            /\ OpenBraces(Split(src), s, tc) >= 2
            /\ examined[k].end_line = tc + 1

\* The line at index s has a well-formed /** ... */ block directly above it:
\* the line above ends with the block's closing '*/', and the block opens with
\* '/**' at the start of that line or of a line further up, with no '*/' in
\* between.  The text of the inner lines is free.
WellFormedBlockAbove(lines, s) ==
    /\ s >= 1
    /\ LET c == Strip(LineAt(lines, s - 1))
       IN  /\ EndsWith(c, <<"*", "/">>)
           /\ ~Contains(SubSeq(c, 1, Len(c) - 1), <<"*", "/">>)
           /\ \E o \in 0..(s - 1) :
               /\ StartsWith(Strip(LineAt(lines, o)), <<"/", "*", "*">>)
               /\ o = s - 1 => Len(c) >= 5
               /\ \A m \in o..(s - 2) : ~Contains(LineAt(lines, m), <<"*", "/">>)

\* Above the line at index s there is nothing but '//' comments, one at least.
OnlyLineCommentAbove(lines, s) ==
    /\ \E m \in 0..(s - 1) : StartsWith(Strip(LineAt(lines, m)), <<"/", "/">>)
    /\ \A m \in 0..(s - 1) :
        LET l == Strip(LineAt(lines, m))
        IN  l = <<>> \/ StartsWith(l, <<"/", "/">>)

\* C3: every construct the JSDoc analyzer examines that has a well-formed
\* /** ... */ block directly above it, whatever the text of the block's inner
\* lines, is found documented by check_for_jsdoc, and every construct with
\* only a '//' comment above it is found undocumented.
C3_BlockDetected ==
    tool = "jsdoc" =>
        \A k \in 1..Len(examined) :
            LET s == examined[k].start_line - 1
            IN  /\ WellFormedBlockAbove(Split(src), s) => examined[k].has_jsdoc
                /\ OnlyLineCommentAbove(Split(src), s) => ~examined[k].has_jsdoc

\* C5: once the method-length analysis of the sample file has returned, it
\* has detected the function foo and counted 1 code line in it.
C5_SampleLength ==
    (tool = "method" /\ src = SampleFile /\ pc = "done") =>
        \E k \in 1..Len(examined) :
            /\ examined[k].info.found
            /\ examined[k].info.method_name = <<"foo">>
            /\ examined[k].info.code_lines = 1

\* C6: once the JSDoc analysis of the sample file has returned, missing_jsdoc
\* holds exactly one entry: method name foo, no JSDoc, method type "Function".
C6_SampleJsdoc ==
    (tool = "jsdoc" /\ src = SampleFile /\ pc = "done") =>
        /\ Len(found) = 1
        /\ found[1].method_name = <<"foo">>
        /\ ~found[1].has_jsdoc
        /\ found[1].method_type = "Function"

\* The JSDoc analysis of the sample file has returned with an entry.
C6_Witness ==
    /\ tool = "jsdoc" /\ src = SampleFile /\ pc = "done"
    /\ Len(found) >= 1
    /\ found[1].start_line = 1 /\ found[1].end_line = 3

-----------------------------------------------------------------------------
(* Claims about the suite (Spec) *)

\* The line typed is y or yes, in any case and with any space around it.
Affirmative(line) == \E w \in {"y", "yes"} : Lower(Strip(line)) = <<w>>

\* A file of the tree changes its content, or a file is added to the tree.
TreeChanges ==
    \/ DOMAIN files' # DOMAIN files
    \/ \E f \in DOMAIN files : files'[f] # files[f]

\* C7: a script the controller has started runs under a confirmation that
\* returned True; the tree changes only in a step of the remover script whose
\* proceed prompt was answered y or yes (and, under the controller, after
\* confirm_action returned True); any other answer at the proceed prompt ends
\* the script in that step, and a script ended that way has scanned,
\* processed and written nothing.  No step taken at the proceed prompt
\* changes the tree, a Ctrl-C that ends the controller included.
C7_ConfirmedBeforeRewrite ==
    /\ [](/\ (ctl # "off" /\ script # "none") => confirmed
          /\ (script = RemoverScript /\ proceed # Unasked /\ ~Affirmative(proceed)) =>
                 /\ spc \in {"exited", "crashed"}
                 /\ todo = <<>> /\ analysed = {} /\ results = <<>>
                 /\ writes = 0 /\ backups = <<>>)
    /\ [][/\ TreeChanges =>
                 /\ script = RemoverScript
                 /\ Affirmative(proceed)
                 /\ ctl # "off" => confirmed
          /\ (spc = "proceed" /\ ~Affirmative(proceed')) =>
                 /\ script' = RemoverScript => spc' \in {"exited", "crashed"}
                 /\ script' # RemoverScript => raised' = "KeyboardInterrupt"
                 /\ files' = files]_vars

\* The remover, started by the controller after a confirmation and answered
\* y or yes at its own prompt, has rewritten app/t.js.
C7_Witness ==
    /\ ctl = "run" /\ confirmed /\ script = RemoverScript
    /\ Affirmative(proceed)
    /\ writes > 0
    /\ files[PathApp] # SampleFile

\* The files named in what the running script has collected for its report.
ReportedFiles ==
    IF "files_with_logs" \in DOMAIN report
    THEN {report.files_with_logs[k].file : k \in 1..Len(report.files_with_logs)}
    ELSE IF "entries" \in DOMAIN report
    THEN {report.entries[k].file : k \in 1..Len(report.entries)}
    ELSE {}

InNodeModules(file_path) == Contains(file_path, <<"node_modules">>)

\* C10: whichever of the four scripts runs and in whatever order the globs
\* list the files, a file with node_modules in its path is not in the list
\* the loop takes its files from, is not passed to the analysis, is not named
\* in the report, is not counted among the files analysed, keeps its content
\* and gets no backup copy.
C10_NodeModulesExcluded ==
    /\ \A k \in 1..Len(todo) : ~InNodeModules(todo[k])
    /\ \A f \in analysed : ~InNodeModules(f)
    /\ \A f \in ReportedFiles : ~InNodeModules(f)
    /\ report.n_files <= Cardinality({f \in DOMAIN files : ~InNodeModules(f)})
    /\ \A f \in DOMAIN files :
        InNodeModules(f) => /\ f \in SourcePaths
                            /\ files[f] \in LibContents

\* A script has ended with files in its report while the file under
\* node_modules holds a console.log call and a function without JSDoc.
C10_Witness ==
    /\ spc = "exited"
    /\ files[PathLib] = SampleFile
    /\ analysed # {}
    /\ ReportedFiles # {}

-----------------------------------------------------------------------------
(* Claims about failures while one file is processed (Spec) *)

\* The files the running script lists for its loop: those of the tree with
\* one of its extensions and none of its excluded directories in the path.
Scannable(patterns, excluded_dirs) ==
    {f \in DOMAIN files :
        /\ \E k \in 1..Len(patterns) : EndsWith(f, <<".", patterns[k]>>)
        /\ ~ShouldExclude(f, excluded_dirs)}

\* What the analysis of the running analyzer gives for file f when nothing
\* fails.
EntriesAlone(f) ==
    IF script = JsdocScript THEN analyze_jsdoc_coverage(f, files[f], "none")
    ELSE IF script = MethodLengthScript THEN analyze_method_length(f, files[f], "none")
    ELSE LET file_info == analyze_file_length(f, files[f])
         IN  IF file_info.total_lines > LargeFileThreshold
             THEN <<file_info>> ELSE <<>>

\* The entries of file f among what the running analyzer has collected.
EntriesOf(f) == SelectSeq(report.entries, LAMBDA e : e.file = f)

\* What the calls of the remover returned without an error, in order.
OkRets ==
    SelectSeq([k \in 1..Len(results) |-> results[k].call.ret],
              LAMBDA r : r.error = "None")

\* The counters of the remover after the results rs, starting from t.
RECURSIVE TallyAll(_, _)
TallyAll(t, rs) ==
    IF rs = <<>> THEN t ELSE TallyAll(RemoverTally(t, Head(rs)), Tail(rs))

\* C11: a script crashes only at the proceed prompt of the remover, by the
\* exception of input(), never for a file: the loop
\* takes every listed file whether or not an earlier one failed; a file
\* whose processing raised has no entry in what the script collected, and in
\* the remover it is counted in files_with_errors and nowhere else; what is
\* collected for the other files is what their analysis gives on its own.
C11_FailuresNonFatal ==
    /\ spc = "crashed" => (script = RemoverScript /\ InputRaises(proceed) # "None")
    /\ faulted \subseteq analysed
    /\ (script \in {JsdocScript, MethodLengthScript, FileLengthScript}
        /\ spc = "loop") =>
          /\ \A f \in analysed :
                EntriesOf(f) = IF f \in faulted THEN <<>> ELSE EntriesAlone(f)
          /\ \A k \in 1..Len(report.entries) : report.entries[k].file \in analysed
          /\ report.files_with =
                Cardinality({f \in analysed \ faulted : EntriesAlone(f) # <<>>})
          /\ todo = <<>> =>
                analysed = Scannable(IF script = FileLengthScript
                                     THEN Patterns_file_length ELSE Patterns_jsdoc,
                                     IF script = MethodLengthScript
                                     THEN ExcludedDirs_method_length
                                     ELSE ExcludedDirs_jsdoc)
    /\ (script = RemoverScript /\ spc = "loop") =>
          /\ report = [TallyAll(RemoverCounters(report.n_files), OkRets)
                          EXCEPT !.files_with_errors = Cardinality(faulted)]
          /\ \A k \in 1..Len(report.files_with_logs) :
                report.files_with_logs[k].file \in analysed \ faulted
          /\ todo = <<>> =>
                analysed = Scannable(Patterns_remover, ExcludedDirs_remover)

\* The loop of the JSDoc scanner has taken every file; the processing of one
\* raised, and the constructs of another are collected.
C11_Witness ==
    /\ script = JsdocScript /\ spc = "loop" /\ todo = <<>>
    /\ faulted # {} /\ report.entries # <<>>
    /\ Cardinality(analysed) >= 2

-----------------------------------------------------------------------------
(* Claims about the controller (Spec) *)

\* C12, as claimed: main() ends only by the choice '0', by KeyboardInterrupt
\* or by the end of the input; any other exception raised in a menu round
\* is printed and the menu is shown again.  The code does not satisfy it:
\* the 'except Exception' of main() stands outside the while loop, so the
\* exception that reaches it ends main().
C12_MenuSurvivesException ==
    ctl = "exit" => raised \in {"None", "SystemExit", "KeyboardInterrupt", "EOFError"}

-----------------------------------------------------------------------------
(* Claims about check_for_jsdoc (SpecAnalyze) *)

\* The stripped line k of lines, k counted from 0.
StrippedAt(lines, k) == Strip(LineAt(lines, k))

\* A blank line, a line starting with '@', or a line that is an access
\* modifier and nothing else.
SkippedAbove(l) ==
    \/ l = <<>>
    \/ StartsWith(l, <<"@">>)
    \/ l \in {<<"public">>, <<"private">>, <<"protected">>, <<"static">>, <<"readonly">>}

\* A line starting with '*' that does not end in '*/'.
StarLine(l) == StartsWith(l, <<"*">>) /\ ~EndsWith(l, <<"*", "/">>)

\* A line that is neither blank nor a comment, a decorator or a modifier.
ActualCode(l) ==
    /\ ~SkippedAbove(l)
    /\ ~StartsWith(l, <<"*">>)
    /\ ~StartsWith(l, <<"/", "*">>)
    /\ ~StartsWith(l, <<"/", "/">>)

\* From line e backward over lines that are blank or start with '*' or '/*',
\* a line starting with '/**' is reached.
OpeningReached(lines, e) ==
    \E s \in 0..e :
        /\ StartsWith(StrippedAt(lines, s), <<"/", "*", "*">>)
        /\ \A k \in (s + 1)..e :
              LET l == StrippedAt(lines, k)
              IN  l = <<>> \/ StartsWith(l, <<"*">>) \/ StartsWith(l, <<"/", "*">>)

\* C13, as claimed: has_jsdoc is true only if the nearest line above the
\* construct that is not blank, a decorator or an access modifier ends in
\* '*/', and a line starting with '/**' stands at or above it with no line
\* of actual code between that line and the construct.
C13_OnlyIfNearestLineEndsBlock ==
    (tool = "jsdoc" /\ pc = "done") =>
        \A n \in 1..Len(examined) :
            LET lines == Split(src)
                m == examined[n].start_line - 1
            IN  examined[n].has_jsdoc =>
                    \E e \in 0..(m - 1) :
                        /\ \A k \in (e + 1)..(m - 1) : SkippedAbove(StrippedAt(lines, k))
                        /\ ~SkippedAbove(StrippedAt(lines, e))
                        /\ EndsWith(StrippedAt(lines, e), <<"*", "/">>)
                        /\ \E s \in 0..e :
                              /\ StartsWith(StrippedAt(lines, s), <<"/", "*", "*">>)
                              /\ \A k \in (s + 1)..(m - 1) :
                                    ~ActualCode(StrippedAt(lines, k))

\* C13, amended: has_jsdoc is true only if, scanning backward from the
\* construct over blank lines, '@' lines, access-modifier lines and lines
\* that start with '*' without ending in '*/', the nearest other line ends
\* in '*/' and from it backward, over lines that are blank or start with '*'
\* or '/*', a line starting with '/**' is reached.
C13_OnlyIfBlockAbove ==
    (tool = "jsdoc" /\ pc = "done") =>
        \A n \in 1..Len(examined) :
            LET lines == Split(src)
                m == examined[n].start_line - 1
            IN  examined[n].has_jsdoc =>
                    \E e \in 0..(m - 1) :
                        /\ \A k \in (e + 1)..(m - 1) :
                              \/ SkippedAbove(StrippedAt(lines, k))
                              \/ StarLine(StrippedAt(lines, k))
                        /\ ~SkippedAbove(StrippedAt(lines, e))
                        /\ EndsWith(StrippedAt(lines, e), <<"*", "/">>)
                        /\ OpeningReached(lines, e)

\* A construct found documented with an access modifier and a line starting
\* with '*' between the block and the construct.
C13_Witness ==
    /\ tool = "jsdoc" /\ pc = "done"
    /\ src = Join(<<DocOneLine, DocStar, LineModifier, LineMethod, LineClose>>)
    /\ Len(examined) = 1 /\ examined[1].has_jsdoc

-----------------------------------------------------------------------------
(* Claims about the backups of the remover (Spec) *)

\* C14, as claimed: when the remover runs with a backup directory, every
\* call that opened its file for writing had copied the file to the backup
\* directory before.  The code does not satisfy it: backup_file returning
\* False does not keep the call from rewriting the file.
C14_BackupBeforeRewrite ==
    (script = RemoverScript /\ backup_dir) =>
        \A k \in 1..Len(results) :
            results[k].call.opened_w => results[k].call.copied

\* The place of a menu key among the keys of the analyzers.
KeyRank(k) == CHOOSE i \in 1..Len(AnalyzerKeys) : AnalyzerKeys[i] = k

\* c is one of the single choices '0' .. '5'.
SingleChoice(c) == \E k \in {"0", "1", "2", "3", "4", "5"} : c = <<k>>

\* c is a list of two or more keys of analyzers joined by commas, each key
\* greater than the one before.
AscendingKeys(c) ==
    /\ Len(c) >= 3 /\ Len(c) % 2 = 1
    /\ \A p \in 1..Len(c) :
          IF p % 2 = 0 THEN c[p] = ","
          ELSE /\ c[p] \in DOMAIN get_analyzer_info
               /\ p > 1 => KeyRank(c[p - 2]) < KeyRank(c[p])

\* The keys typed on a line that get_user_choice accepts as a list.
KeysTyped(line) ==
    LET parts == SplitOn(Strip(line), 1, ",")
    IN  {Strip(parts[k]) : k \in 1..Len(parts)}

\* C15: the value get_user_choice returned is a single choice '0' .. '5' or
\* an ascending comma-joined list of distinct keys '1' .. '4', never a list
\* holding '0' or '5'; for a list typed it names exactly the keys typed; and
\* every key main() looks up for the choice is a key of the analyzer table.
C15_ValidChoice ==
    /\ ctl \in {"confirm", "run"} => (choice # <<>> /\ choice # <<"0">>)
    /\ choice # <<>> =>
          /\ SingleChoice(choice) \/ AscendingKeys(choice)
          /\ choice # <<"0">> =>
                \A k \in 1..Len(SelectionOf(choice)) :
                    SelectionOf(choice)[k] \in DOMAIN get_analyzer_info
    /\ \A k \in 1..Len(selection) : selection[k] \in DOMAIN get_analyzer_info
    /\ \A line \in MenuInputs :
          LET r == get_user_choice(line)
          IN  (r.valid /\ Contains(line, <<",">>)) =>
                  /\ SingleChoice(r.choice) \/ AscendingKeys(r.choice)
                  /\ {<<k>> : k \in {SelectionOf(r.choice)[j] :
                                       j \in 1..Len(SelectionOf(r.choice))}}
                         = KeysTyped(line)

\* The choice typed as '4, 1' is confirmed and runs as the list 1, 4.
C15_Witness ==
    /\ ctl = "run" /\ choice = <<"1", ",", "4">>
    /\ selection = <<"1", "4">>

-----------------------------------------------------------------------------
(* Claims about the scans of the analyzers applied to one file (SpecAnalyze) *)

\* No line of the file is classified as the start of a construct by the
\* analyzer that runs: every line is passed over or is no declaration.
NoConstructStart ==
    LET lines == Split(src)
    IN  \A i \in 0..(Len(lines) - 1) :
            LET stripped == Strip(LineAt(lines, i))
            IN  IF tool = "jsdoc"
                THEN \/ SkippedLine_jsdoc(stripped)
                     \/ ~is_method_declaration_jsdoc(stripped, lines, i)
                ELSE \/ SkippedLine_length(stripped)
                     \/ ~is_method_declaration_length(stripped, lines, i)

\* C16: for a file in which no line is classified as a construct start,
\* analyze_jsdoc_coverage and analyze_method_length look at no construct and
\* return an empty list.
C16_NoConstructNoEntry ==
    (tool \in {"jsdoc", "method"} /\ NoConstructStart) =>
        /\ examined = <<>>
        /\ found = <<>>
        /\ tool = "jsdoc" => analyze_jsdoc_coverage(ThePath, src, "none") = <<>>
        /\ tool = "method" => analyze_method_length(ThePath, src, "none") = <<>>

\* The JSDoc analyzer has returned for a file of several lines none of
\* which starts a construct.
C16_Witness ==
    /\ tool = "jsdoc" /\ pc = "done"
    /\ NoConstructStart
    /\ Len(Split(src)) >= 3
    /\ found = <<>>

\* The sum over the lines from index a to index b of the number of '{' minus
\* the number of '}' of the line.
RECURSIVE Balance(_, _, _)
Balance(lines, a, b) ==
    IF a > b THEN 0
    ELSE Count(LineAt(lines, a), "{") - Count(LineAt(lines, a), "}")
             + Balance(lines, a + 1, b)

\* At the end of line j a '{' has been seen since line s and the balance of
\* the lines s .. j is 0 or less.
StopsAt(lines, s, j) ==
    /\ \E k \in s..j : Count(LineAt(lines, k), "{") > 0
    /\ Balance(lines, s, j) <= 0

\* The first line from s on at which the scan stops, -1 when there is none.
FirstStop(lines, s) ==
    IF \E j \in s..(Len(lines) - 1) : StopsAt(lines, s, j)
    THEN CHOOSE j \in s..(Len(lines) - 1) :
             /\ StopsAt(lines, s, j)
             /\ \A k \in s..(j - 1) : ~StopsAt(lines, s, k)
    ELSE -1

\* C17: the boundary scan of either analyzer stops at the first line, at or
\* after the start line, at whose end a '{' has been seen since the start
\* and the sum of '{' minus '}' over the whole lines since the start is 0 or
\* less; a negative sum from before the first '{' counts in it.  That line
\* is the end line reported; the method-length analyzer reports the number
\* of lines from the start to it as total_lines.
C17_StopsAtFirstBalancedLine ==
    /\ tool = "jsdoc" =>
        \A n \in 1..Len(examined) :
            LET s == examined[n].start_line - 1
                j == FirstStop(Split(src), s)
            IN  j >= 0 => examined[n].end_line = j + 1
    /\ tool = "method" =>
        \A n \in 1..Len(examined) :
            LET s == examined[n].start
                j == FirstStop(Split(src), s)
            IN  j >= 0 => /\ examined[n].info.found
                          /\ examined[n].info.end_line = j + 1
                          /\ examined[n].info.total_lines = j - s + 1

\* The method-length analyzer has examined a construct below whose
\* declaration a '}' comes before the first '{': the scan stops at the line
\* of that '{'.
C17_Witness ==
    /\ tool = "method" /\ pc = "done"
    /\ \E n \in 1..Len(examined) :
        LET lines == Split(src)
            s == examined[n].start
            j == FirstStop(lines, s)
        IN  /\ j >= s + 2
            /\ Balance(lines, s, j - 1) < 0
            /\ \A k \in s..(j - 1) : Count(LineAt(lines, k), "{") = 0
            /\ examined[n].info.found
            /\ examined[n].info.end_line = j + 1

\* Line i of lines is one the loop of analyze_method_length takes for the
\* start of a construct when it comes to it.
StartsConstruct_length(lines, i) ==
    /\ ~SkippedLine_length(Strip(LineAt(lines, i)))
    /\ is_method_declaration_length(Strip(LineAt(lines, i)), lines, i)

\* C18: for a construct the method-length analyzer examines whose scan
\* reaches the end of the file without a line at which a '{' has been seen
\* and the balance is 0 or less, analyze_method_from_line gives no
\* descriptor and the construct is not among the long methods, however many
\* lines follow its start; the loop goes on with the line after the start
\* line, so a construct starting on a later line is examined, the first of
\* them next.
C18_UnterminatedNotReported ==
    tool = "method" =>
        \A n \in 1..Len(examined) :
            LET lines == Split(src)
                s == examined[n].start
            IN  FirstStop(lines, s) = -1 =>
                    /\ ~examined[n].info.found
                    /\ \A k \in 1..Len(found) : found[k].start_line # s + 1
                    /\ \A i \in (s + 1)..(Len(lines) - 1) :
                          (/\ StartsConstruct_length(lines, i)
                           /\ \A k \in (s + 1)..(i - 1) : ~StartsConstruct_length(lines, k)
                           /\ (pc = "done" \/ line_i > i)) =>
                              /\ n < Len(examined)
                              /\ examined[n + 1].start = i

\* The method-length analyzer has returned for a file whose first construct
\* has no end: it gave no descriptor for it and examined the construct that
\* starts on the next line.
C18_Witness ==
    /\ tool = "method" /\ pc = "done"
    /\ Len(examined) = 2
    /\ ~examined[1].info.found
    /\ examined[2].start = examined[1].start + 1
    /\ examined[2].info.found

-----------------------------------------------------------------------------
(* Claims about the multi-line pass of the remover (SpecRemove) *)

\* The text the multi-line pass is given in call k, as a list of lines.
PassLines(k) == Split(RemovePattern2(RemovePattern1(results[k].before)))

\* The '(' minus the ')' of lines a..b.
RECURSIVE ParenBalance(_, _, _)
ParenBalance(lines, a, b) ==
    IF b < a THEN 0
    ELSE ParenBalance(lines, a, b - 1)
             + Count(lines[b], "(") - Count(lines[b], ")")

\* Counted from line i, the count is 0 at the end of no line.
NeverBalanced(lines, i) ==
    \A j \in i..Len(lines) : ParenBalance(lines, i, j) # 0

\* Counted from line i, line j is the first at whose end the count is 0.
FirstBalanced(lines, i, j) ==
    /\ j \in i..Len(lines)
    /\ ParenBalance(lines, i, j) = 0
    /\ \A m \in i..(j - 1) : ParenBalance(lines, i, m) # 0

\* Line i is the first line that starts with console.log( : the pass keeps
\* the lines before it and comes to it.
FirstLogLine(lines, i) ==
    /\ i \in 1..Len(lines)
    /\ LineStartsLog(lines[i])
    /\ \A m \in 1..(i - 1) : ~LineStartsLog(lines[m])

\* The pass, standing at line p, comes to line i: line i is not dropped as
\* part of a statement that starts with console.log( on a line from p on
\* and whose count returns to 0 at line i or after it.
RECURSIVE ComesTo(_, _, _)
ComesTo(lines, p, i) ==
    IF p >= i THEN p = i
    ELSE IF LineStartsLog(lines[p])
            /\ \E j \in p..Len(lines) : FirstBalanced(lines, p, j)
         THEN ComesTo(lines,
                      (CHOOSE j \in p..Len(lines) : FirstBalanced(lines, p, j)) + 1,
                      i)
         ELSE ComesTo(lines, p + 1, i)

\* C19, as claimed: when a line starts with console.log( and the count
\* taken from it returns to 0 at no line end, the pass keeps that line and
\* every line after it, in place and in order: what the pass gives back
\* ends with the lines from that line on.
C19_UnbalancedKeepsAllFollowing ==
    \A k \in 1..Len(results) :
        LET lines == PassLines(k)
            out == MultilineFrom(lines, 1)
        IN  \A i \in 1..Len(lines) :
                (LineStartsLog(lines[i]) /\ NeverBalanced(lines, i)) =>
                    /\ Len(out) >= Len(lines) - i + 1
                    /\ SubSeq(out, Len(out) - (Len(lines) - i), Len(out))
                           = SubSeq(lines, i, Len(lines))

\* C19, amended: when the pass comes to a line that starts with
\* console.log( and the count taken from it returns to 0 at no line end,
\* the pass keeps that line and the lines after it up to the next line that
\* starts with console.log( , in place and in order, after what it gave for
\* the lines before (those lines themselves when none of them starts with
\* console.log( ); from the line after the kept one the pass goes on as it
\* does on a text that begins there, so no later line is dropped when no
\* later line starts with console.log( .
C19_UnbalancedKeepsUpToNextLog ==
    \A k \in 1..Len(results) :
        LET lines == PassLines(k)
            out == MultilineFrom(lines, 1)
        IN  \A i \in 1..Len(lines) :
                (ComesTo(lines, 1, i) /\ LineStartsLog(lines[i])
                 /\ NeverBalanced(lines, i)) =>
                    LET head == MultilineFrom(SubSeq(lines, 1, i - 1), 1)
                        rest == MultilineFrom(SubSeq(lines, i + 1, Len(lines)), 1)
                    IN  /\ out = head \o <<lines[i]>> \o rest
                        /\ FirstLogLine(lines, i) => head = SubSeq(lines, 1, i - 1)
                        /\ \A m \in i..Len(lines) :
                              (\A n \in (i + 1)..m : ~LineStartsLog(lines[n])) =>
                                  /\ Len(out) >= Len(head) + (m - i + 1)
                                  /\ SubSeq(out, Len(head) + 1, Len(head) + (m - i + 1))
                                         = SubSeq(lines, i, m)
                        /\ results[k].call.computed
                               = CleanEmptyLines(RemovePattern5(Join(out)))

\* The remover has processed a file in which the pass dropped a console.log
\* statement, came to a line that starts with console.log( and never
\* balances, kept it, and dropped a later statement.
C19_Witness ==
    \E k \in 1..Len(results) :
        LET lines == PassLines(k)
        IN  \E i \in 1..Len(lines) :
                /\ ComesTo(lines, 1, i) /\ LineStartsLog(lines[i])
                /\ NeverBalanced(lines, i)
                /\ ~FirstLogLine(lines, i)
                /\ Len(MultilineFrom(SubSeq(lines, 1, i - 1), 1)) < i - 1
                /\ Len(MultilineFrom(SubSeq(lines, i + 1, Len(lines)), 1))
                       < Len(lines) - i
                /\ results[k].call.opened_w

\* The position in s, from p on, of the ')' that brings depth to 0; 0 if
\* there is none.
RECURSIVE ClosingParen(_, _, _)
ClosingParen(s, p, depth) ==
    IF p > Len(s) THEN 0
    ELSE IF s[p] = "(" THEN ClosingParen(s, p + 1, depth + 1)
    ELSE IF s[p] = ")"
         THEN IF depth = 1 THEN p ELSE ClosingParen(s, p + 1, depth - 1)
    ELSE ClosingParen(s, p + 1, depth)

\* text is one console.log call and nothing else: console.log( , its
\* arguments up to the matching ')', and at most a ';' and whitespace.
CallOnly(text) ==
    LET s == Strip(text)
        q == ConsoleLogAt(s, 1)
        c == IF q = 0 THEN 0 ELSE ClosingParen(s, q, 1)
    IN  /\ c # 0
        /\ \A p \in (c + 1)..Len(s) : s[p] = ";" \/ IsSpace(s[p])

\* C20: when, counted from the first line that starts with console.log( ,
\* some line is the first at whose end the count is 0, the pass drops
\* exactly the lines from the one through the other and goes on with the
\* line after, and the lines dropped hold nothing but the console.log call.
C20_DropsOnlyTheCall ==
    \A k \in 1..Len(results) :
        LET lines == PassLines(k)
        IN  \A i \in 1..Len(lines) : \A j \in i..Len(lines) :
                (FirstLogLine(lines, i) /\ FirstBalanced(lines, i, j)) =>
                    /\ MultilineFrom(lines, 1)
                           = SubSeq(lines, 1, i - 1)
                               \o MultilineFrom(SubSeq(lines, j + 1, Len(lines)), 1)
                    /\ CallOnly(Join(SubSeq(lines, i, j)))

\* In every call the pass dropped exactly the lines of the first statement
\* whose count returns to 0, whatever those lines hold.
MultilineExtent ==
    \A k \in 1..Len(results) :
        LET lines == PassLines(k)
        IN  \A i \in 1..Len(lines) : \A j \in i..Len(lines) :
                (FirstLogLine(lines, i) /\ FirstBalanced(lines, i, j)) =>
                    MultilineFrom(lines, 1)
                        = SubSeq(lines, 1, i - 1)
                            \o MultilineFrom(SubSeq(lines, j + 1, Len(lines)), 1)

-----------------------------------------------------------------------------
(* Claims about what the remover leaves of a file (SpecRemove) *)

\* The position in s, from p on, of the ')' that closes a call whose '(' has
\* been read (depth 1), parentheses between double quotes not counted;
\* Len(s) + 1 if the call is not closed.
RECURSIVE CallEnd(_, _, _, _)
CallEnd(s, p, depth, in_string) ==
    IF p > Len(s) THEN Len(s) + 1
    ELSE IF s[p] = "\"" THEN CallEnd(s, p + 1, depth, ~in_string)
    ELSE IF in_string THEN CallEnd(s, p + 1, depth, in_string)
    ELSE IF s[p] = "(" THEN CallEnd(s, p + 1, depth + 1, in_string)
    ELSE IF s[p] = ")"
         THEN IF depth = 1 THEN p ELSE CallEnd(s, p + 1, depth - 1, in_string)
    ELSE CallEnd(s, p + 1, depth, in_string)

\* The number of the line of s that position p lies in.
LineOfPos(s, p) == 1 + Count(SubSeq(s, 1, p - 1), NL)

\* Line i of s holds a part of a console.log call: a call written anywhere
\* in s starts on line i or before and is closed on line i or after.
InLogStatement(s, i) ==
    \E p \in 1..Len(s) :
        /\ ConsoleLogAt(s, p) # 0
        /\ LineOfPos(s, p) <= i
        /\ i <= LineOfPos(s, CallEnd(s, ConsoleLogAt(s, p), 1, FALSE))

\* The lines of s that hold something and no part of a console.log call.
RECURSIVE OtherLinesFrom(_, _)
OtherLinesFrom(s, i) ==
    IF i > Len(Split(s)) THEN <<>>
    ELSE (IF Strip(Split(s)[i]) # <<>> /\ ~InLogStatement(s, i)
          THEN <<Split(s)[i]>> ELSE <<>>) \o OtherLinesFrom(s, i + 1)

OtherLines(s) == OtherLinesFrom(s, 1)

\* The elements of a are found in b in the same order.
RECURSIVE IsSubsequence(_, _)
IsSubsequence(a, b) ==
    IF a = <<>> THEN TRUE
    ELSE IF b = <<>> THEN FALSE
    ELSE IF Head(a) = Head(b) THEN IsSubsequence(Tail(a), Tail(b))
    ELSE IsSubsequence(a, Tail(b))

\* C21: every line of the file that holds something and is no part of a
\* console.log statement is in the file after the call, unchanged and in
\* the same relative order (empty lines, which the clean-up may collapse,
\* left aside).
C21_OtherLinesKept ==
    \A k \in 1..Len(results) :
        results[k].call.ret.error = "None" =>
            IsSubsequence(OtherLines(results[k].before),
                          Split(results[k].call.after))

\* The line is one the exclusion rules name: it contains '=>' or '= ', or
\* starts with 'return ', 'const ', 'let ', 'var ' or 'this.', or contains
\* 'console.', 'Math.', 'document.', 'window.', 'localStorage.' or
\* 'sessionStorage.'.
ExcludedByRule(stripped) ==
    \/ Contains(stripped, <<"=", ">">>)
    \/ Contains(stripped, <<"=", " ">>)
    \/ \E w \in {"return", "const", "let", "var"} : StartsWith(stripped, <<w, " ">>)
    \/ StartsWith(stripped, <<"this", ".">>)
    \/ \E w \in {"console", "Math", "document", "window", "localStorage",
                 "sessionStorage"} : Contains(stripped, <<w, ".">>)

\* The line starts with what a positive rule looks for, or satisfies the
\* rule for a method with parentheses, ':' and '{'.
LooksLikeDeclaration(stripped) ==
    \/ StartsWith(stripped, <<"constructor">>)
    \/ StartsWith(stripped, <<"function", " ">>)
    \/ StartsWith(stripped, <<"async", " ">>)
    \/ \E h \in Hooks_jsdoc : StartsWith(stripped, <<h>>)
    \/ /\ Contains(stripped, <<"(">>) /\ Contains(stripped, <<")">>)
       /\ Contains(stripped, <<":">>) /\ Contains(stripped, <<"{">>)

\* C22: in the JSDoc analyzer a line the exclusion rules name is never
\* classified as a construct start, whatever it starts with:
\* is_method_declaration is false for it and no construct the scan examines
\* starts on it.
C22_ExclusionsFirst ==
    tool = "jsdoc" =>
        LET lines == Split(src)
        IN  \A i \in 0..(Len(lines) - 1) :
                LET stripped == Strip(LineAt(lines, i))
                IN  ExcludedByRule(stripped) =>
                        /\ ~is_method_declaration_jsdoc(stripped, lines, i)
                        /\ JsdocAt(lines, i, ThePath).infos = <<>>
                        /\ \A k \in 1..Len(examined) :
                               examined[k].start_line # i + 1

\* The JSDoc analyzer has returned for a file whose first line starts like a
\* declaration and is named by an exclusion rule: it examined the method
\* below and nothing else.
C22_Witness ==
    /\ tool = "jsdoc" /\ pc = "done"
    /\ ExcludedByRule(Strip(LineAt(Split(src), 0)))
    /\ LooksLikeDeclaration(Strip(LineAt(Split(src), 0)))
    /\ Len(examined) = 1
    /\ examined[1].start_line = 2

-----------------------------------------------------------------------------
(* Claims about the controller running several analyzers (Spec) *)

\* The keys of sel are menu keys of analyzers in strictly ascending order.
AscendingSelection(sel) ==
    /\ \A k \in 1..Len(sel) : sel[k] \in {"1", "2", "3", "4"}
    /\ \A j, k \in 1..Len(sel) : j < k => KeyRank(sel[j]) < KeyRank(sel[k])

\* C23: after a confirmation the analyzers of the choice are run in
\* ascending order of their number, all four in the order 1, 2, 3, 4 for the
\* choice 5: at every moment the results held and the analyzers still to
\* run make up the analyzers chosen, each once and in that order, whatever
\* the results were; one script runs at a time and it is the next in the
\* order; when the controller waits for Enter nothing is left to run and
\* there is one result per analyzer.  Every return of run_analyzer adds one
\* result, for the analyzer that was next, and leaves the later ones to run,
\* whether the script was not found, subprocess.run raised, or the process
\* exited with code 0 or another; the result is successful if and only if
\* the process ran and exited with code 0.
C23_AllRunInOrder ==
    /\ []((ctl \in {"run", "pause"} /\ confirmed) =>
            LET sel == SelectionOf(choice)
            IN  /\ AscendingSelection(sel)
                /\ choice = <<"5">> => sel = <<"1", "2", "3", "4">>
                /\ Len(outcomes) + Len(selection) = Len(sel)
                /\ \A k \in 1..Len(outcomes) :
                       outcomes[k].script = get_analyzer_info[sel[k]].script
                /\ \A k \in 1..Len(selection) :
                       selection[k] = sel[Len(outcomes) + k]
                /\ script # "none" =>
                       script = get_analyzer_info[sel[Len(outcomes) + 1]].script
                /\ ctl = "pause" => (selection = <<>> /\ script = "none"))
    /\ [][(outcomes' # outcomes /\ outcomes' # <<>>) =>
              /\ ctl = "run" /\ selection # <<>>
              /\ Len(outcomes') = Len(outcomes) + 1
              /\ SubSeq(outcomes', 1, Len(outcomes)) = outcomes
              /\ outcomes'[Len(outcomes')].script =
                     get_analyzer_info[Head(selection)].script
              /\ outcomes'[Len(outcomes')].success <=>
                     (script # "none" /\ spc = "exited")
              /\ selection' = Tail(selection)
              /\ ctl' = IF selection' = <<>> THEN "pause" ELSE "run"
              /\ script' = "none"]_vars

\* All four analyzers have been run for the choice 5 and the controller
\* waits for Enter: the first two failed, the third, run after them,
\* succeeded, and the fourth failed.
C23_Witness ==
    /\ ctl = "pause" /\ confirmed /\ choice = <<"5">>
    /\ Len(outcomes) = 4
    /\ ~outcomes[1].success /\ ~outcomes[2].success
    /\ outcomes[3].success /\ ~outcomes[4].success

-----------------------------------------------------------------------------
(* Claims about the length of a method (SpecAnalyze) *)

\* The first line from index s on that holds a '{'; Len(lines) if none does.
FirstBraceLine(lines, s) ==
    IF \E k \in s..(Len(lines) - 1) : Count(LineAt(lines, k), "{") > 0
    THEN CHOOSE k \in s..(Len(lines) - 1) :
             /\ Count(LineAt(lines, k), "{") > 0
             /\ \A j \in s..(k - 1) : Count(LineAt(lines, j), "{") = 0
    ELSE Len(lines)

\* A line that counts as code: not blank, no comment, not a brace alone.
CountedLine(stripped) ==
    /\ stripped # <<>>
    /\ ~StartsWith(stripped, <<"/", "/">>)
    /\ ~StartsWith(stripped, <<"*">>)
    /\ ~StartsWith(stripped, <<"/", "*">>)
    /\ stripped # <<"{">>
    /\ stripped # <<"}">>

\* The lines that count from the first line holding '{' after index s
\* through index e.
CodeLineCount(lines, s, e) ==
    Cardinality({k \in FirstBraceLine(lines, s)..e :
                    CountedLine(Strip(LineAt(lines, k)))})

\* C24: for every construct the method-length analyzer examines and finds
\* the end of, code_lines is the number of lines from the first line holding
\* '{' through the closing line that are not blank, do not start with '//',
\* '*' or '/*' and are not '{' or '}' alone, and the construct is among the
\* long methods if and only if that number is greater than 14.
C24_LongIffOverFourteen ==
    tool = "method" =>
        \A n \in 1..Len(examined) :
            LET info == examined[n].info
                lines == Split(src)
            IN  info.found =>
                    LET count == CodeLineCount(lines, examined[n].start,
                                               info.end_line - 1)
                    IN  /\ info.code_lines = count
                        /\ (\E k \in 1..Len(found) : found[k] = info) <=> count > 14
                        /\ LongOf(<<info>>) = IF count > 14 THEN <<info>> ELSE <<>>

\* The method-length analyzer has returned for a file whose only method has
\* exactly 14 code lines among more lines: it found the end and did not
\* report the method.
C24_Witness ==
    /\ tool = "method" /\ pc = "done"
    /\ Len(examined) = 1
    /\ examined[1].info.found
    /\ examined[1].info.code_lines = 14
    /\ examined[1].info.total_lines > 16
    /\ found = <<>>

-----------------------------------------------------------------------------
(* Claims about the report of the remover script (Spec) *)

\* The calls of the scan that read their file and found a console.log( in it.
CallsWithLogs ==
    {k \in 1..Len(results) :
        /\ results[k].call.ret.error = "None"
        /\ results[k].call.ret.original_logs > 0}

\* C25: when the remover script has ended after a scan, the list behind the
\* 'Files with console.logs' figure, the ranking and the file results holds
\* as many entries as files were processed that held a console.log( , and
\* each such file once.
C25_FilesWithLogsOnce ==
    (script = RemoverScript /\ spc = "exited" /\ Affirmative(proceed)) =>
        /\ Len(report.files_with_logs) = Cardinality(CallsWithLogs)
        /\ \A k \in CallsWithLogs :
               Cardinality({j \in 1..Len(report.files_with_logs) :
                               report.files_with_logs[j].file
                                   = results[k].call.ret.file}) = 1

-----------------------------------------------------------------------------
(* Claims about the progress of the scans (SpecAnalyze) *)

\* A step of one of the three scan loops.
ScanStep == JsdocStep \/ MethodStep \/ MultilineStep

\* C26: in analyze_jsdoc_coverage, analyze_method_length and
\* remove_multiline_console_logs every iteration of the loop increases the
\* line index and leaves it within the text; after a construct whose end was
\* detected the index is the one after the detected end, after a removed
\* call the one after the balancing line, after anything else the next one;
\* the loop is left when the index has reached the number of lines, so the
\* number of lines less the index, which is never negative, falls with every
\* iteration and a scan makes at most as many iterations as the text has
\* lines.
C26_ScansProgress ==
    /\ [][ScanStep =>
             /\ line_i' > line_i
             /\ line_i' <= Len(Split(src))
             /\ (tool = "jsdoc" /\ examined' # examined) =>
                    /\ line_i' = examined'[Len(examined')].end_line
                    /\ line_i' - 1 >= line_i
                    /\ line_i' - 1 = FindEnd_jsdoc(Split(src), line_i, line_i, 0, FALSE)
             /\ (tool = "method" /\ examined' # examined
                 /\ examined'[Len(examined')].info.found) =>
                    /\ line_i' = examined'[Len(examined')].info.end_line
                    /\ line_i' - 1 = FirstStop(Split(src), line_i)
                    /\ line_i' - 1 >= line_i
             /\ (tool = "multiline" /\ found' # found) =>
                    /\ ParenBalance(Split(src), line_i + 1, line_i') = 0
                    /\ \A m \in (line_i + 1)..(line_i' - 1) :
                           ParenBalance(Split(src), line_i + 1, m) # 0
             /\ (found' = found /\ examined' = examined) => line_i' = line_i + 1]_vars
    /\ [](/\ line_i >= 0 /\ line_i <= Len(Split(src))
          /\ (pc = "done" /\ tool # "length") => line_i = Len(Split(src))
          /\ (pc = "done" /\ tool = "multiline") =>
                 Join(examined) = remove_multiline_console_logs(src))

\* The multi-line pass has come to its end on a text in which it kept lines
\* and skipped a call of more than one line.
C26_Witness ==
    /\ tool = "multiline" /\ pc = "done"
    /\ examined # <<>>
    /\ \E k \in 1..Len(found) : found[k].last > found[k].first

-----------------------------------------------------------------------------
(* Claims about the extents of the constructs of a file (SpecAnalyze) *)

\* The constructs examined so far, each with its start line and the end
\* line detected for it (1-based); a construct for which the method-length
\* analyzer found no end has its start line for both.
ExaminedExtents ==
    [n \in 1..Len(examined) |->
        IF tool = "jsdoc"
        THEN [first |-> examined[n].start_line, last |-> examined[n].end_line,
              detected |-> TRUE]
        ELSE IF examined[n].info.found
        THEN [first |-> examined[n].info.start_line,
              last |-> examined[n].info.end_line, detected |-> TRUE]
        ELSE [first |-> examined[n].start + 1, last |-> examined[n].start + 1,
              detected |-> FALSE]]

\* Line i (0-based) is one the scan that runs takes for the start of a
\* construct when it comes to it.
StartsConstruct(lines, i) ==
    IF tool = "jsdoc"
    THEN /\ ~SkippedLine_jsdoc(Strip(LineAt(lines, i)))
         /\ is_method_declaration_jsdoc(Strip(LineAt(lines, i)), lines, i)
    ELSE StartsConstruct_length(lines, i)

\* C27: the constructs analyze_jsdoc_coverage and analyze_method_length
\* examine in a file have strictly increasing start lines, each a start line
\* not after its end line, and ranges from start line to end line that are
\* pairwise disjoint; every one starts on a line the scan takes for a start,
\* none on a line inside the range of another, and a construct reported
\* starts inside the range of no other construct.
C27_ExtentsDisjoint ==
    tool \in {"jsdoc", "method"} =>
        LET x == ExaminedExtents
            lines == Split(src)
        IN  /\ \A n \in 1..Len(x) :
                   /\ 1 <= x[n].first /\ x[n].first <= x[n].last
                   /\ x[n].last <= Len(lines)
                   /\ StartsConstruct(lines, x[n].first - 1)
            /\ \A n, m \in 1..Len(x) :
                   n < m => (x[n].first < x[m].first /\ x[n].last < x[m].first)
            /\ \A n, m \in 1..Len(x) :
                   n # m => ~(x[n].first < x[m].first /\ x[m].first <= x[n].last)
            /\ \A k \in 1..Len(found) : \A n \in 1..Len(x) :
                   ~(x[n].first < found[k].start_line
                     /\ found[k].start_line <= x[n].last)

\* The JSDoc analyzer has returned for a file in which a line inside the
\* range of the only construct it examined is one it would take for the
\* start of a construct.
C27_Witness ==
    /\ tool = "jsdoc" /\ pc = "done"
    /\ Len(examined) = 1
    /\ \E i \in examined[1].start_line..(examined[1].end_line - 1) :
           StartsConstruct(Split(src), i)

-----------------------------------------------------------------------------
(* Claims about the counts of analyze_file_length (SpecAnalyze) *)

\* C28: the counts analyze_file_length returns for a file satisfy
\* comment_lines + jsdoc_lines <= non_empty_lines <= total_lines, and
\* code_lines is not negative.
C28_CountsConsistent ==
    (tool = "length" /\ pc = "done") =>
        \A k \in 1..Len(lengths) :
            /\ lengths[k].comment_lines + lengths[k].jsdoc_lines
                   <= lengths[k].non_empty_lines
            /\ lengths[k].non_empty_lines <= lengths[k].total_lines
            /\ lengths[k].code_lines >= 0

\* The line opens a comment with '/*' and closes it with '*/'.
OpensAndCloses(stripped) ==
    /\ Len(stripped) >= 4
    /\ StartsWith(stripped, <<"/", "*">>)
    /\ EndsWith(stripped, <<"*", "/">>)

\* C29: for a file whose first line is a comment that opens and closes on
\* the line, analyze_file_length counts that line as one JSDoc line ('/**')
\* or one comment line ('/*') and classifies the lines after it as it does
\* in a file made of those lines alone.
C29_OneLineCommentClosed ==
    (tool = "length" /\ pc = "done" /\ src # <<>>
     /\ OpensAndCloses(Strip(ReadLines(src)[1]))) =>
        LET first == Strip(ReadLines(src)[1])
            rest == analyze_file_length(ThePath, Join(Tail(ReadLines(src))))
            jsdoc == IF StartsWith(first, <<"/", "*", "*">>) THEN 1 ELSE 0
        IN  /\ lengths[1].jsdoc_lines = rest.jsdoc_lines + jsdoc
            /\ lengths[1].comment_lines = rest.comment_lines + (1 - jsdoc)
            /\ lengths[1].code_lines = rest.code_lines

-----------------------------------------------------------------------------
(* Claims about the backup prompt of the remover (Spec) *)

\* What holds of the remover while it runs after KeyboardInterrupt or
\* EOFError at the prompt of ask_for_backup.
AnsweredNo ==
    (script = RemoverScript /\ answer \in {EndOfInput, Interrupt}) =>
        /\ spc \in {"loop", "exited", "interrupted"}
        /\ spc = "interrupted" => ctl = "off"
        /\ ~backup_dir /\ backups = <<>>
        /\ Len(results) + Len(todo) = report.n_files
        /\ \A k \in 1..Len(results) :
              LET r == results[k].call
              IN  /\ ~r.copied /\ ~r.ret.backed_up
                  /\ (r.read_ok /\ r.computed # results[k].before) => r.opened_w
                  /\ (r.opened_w /\ r.ret.error = "None") => r.after = r.computed

\* C30: KeyboardInterrupt or EOFError at the prompt of ask_for_backup is
\* the answer no.  The remover is not ended by it: it goes on to its scan
\* with no backup directory, no call copies its file, and every call that
\* read a file and removed something from it opens the file for writing
\* and, unless the write fails, leaves the new content in it.  The step
\* that takes the answer leaves the remover in its loop; the run ends
\* before its report only from outside: by the controller whose
\* run_analyzer the Ctrl-C interrupted too, or by a later Ctrl-C.
C30_InterruptIsNo ==
    /\ \A line \in {EndOfInput, Interrupt} : AskedForBackup(line) = "False"
    /\ [](AnsweredNo)
    /\ [][/\ (spc = "backup" /\ answer' \in {EndOfInput, Interrupt}) =>
                 (script' = RemoverScript /\ spc' = "loop" /\ ~backup_dir'
                  /\ files' = files)
          /\ (script = RemoverScript /\ answer \in {EndOfInput, Interrupt}
              /\ script' # RemoverScript) =>
                 \/ spc = "exited"
                 \/ ctl = "run" /\ ctl' = "exit" /\ raised' = "KeyboardInterrupt"
                    /\ outcomes' = outcomes]_vars

\* Ctrl-C was typed at the backup prompt and the remover has finished: it
\* rewrote a file that held a console.log statement, without a copy.
C30_Witness ==
    /\ script = RemoverScript /\ spc = "exited" /\ answer = Interrupt
    /\ \E k \in 1..Len(results) :
          /\ results[k].call.opened_w /\ ~results[k].call.copied
          /\ results[k].call.ret.removed_logs > 0
          /\ results[k].call.after # results[k].before

====
